---------------------------- MODULE Spec2Model ----------------------------
(***************************************************************************)
(* State-machine model of the StepAI realtime voice client.                *)
(*                                                                         *)
(* Two builds of the browser client exist:                                 *)
(*   Variant A  src/unnamed/part_000  (delegated synthesis, TTS queue)     *)
(*   Variant B  src/unnamed/part_001  (native synthesis)                   *)
(* The variable `variant` selects the build; it never changes.             *)
(*                                                                         *)
(* JavaScript runs one handler at a time.  Every action below is one run   *)
(* of a handler (or of the continuation of an async function after an      *)
(* await) up to the next point at which control returns to the event loop. *)
(* A rejected connect() promise runs the click handler's .catch callback   *)
(* as a microtask, i.e. within the same action.                            *)
(***************************************************************************)
EXTENDS Integers, Sequences, FiniteSets, TLC

(* Bounds of the model *)
MaxConnects == 1
    \* connect() invocations that may be alive at once under Spec
MaxOverlap == 2
    \* connect() invocations that may be alive at once under SpecOverlap
MaxBuf == 1
    \* characters aiBuffer may hold: a delta that would exceed it is left out
MaxItems == 3
    \* replies enqueued for synthesis in one behaviour
MaxClock == 4
    \* ticks of the server's clock in one behaviour
MaxCalls == 2
    \* calls of getElevenVoices() in flight at once: one more is left out
MaxSent == 3
    \* control messages sent over one channel: an event that would cause one
    \* more is left out

NULL == 0
Slots == 1..(IF MaxConnects > MaxOverlap THEN MaxConnects ELSE MaxOverlap)
\* the data channels: connection p has the channel p it created and the
\* channel Remote(p) that the remote side may announce
Remote(p) == p + (IF MaxConnects > MaxOverlap THEN MaxConnects ELSE MaxOverlap)
Chans == Slots \cup {Remote(p) : p \in Slots}
ConnOf(c) == IF c \in Slots THEN c ELSE CHOOSE p \in Slots : Remote(p) = c
Variants == {"A", "B"}
Items == 1..MaxItems
VoiceIds == {"", "voice1"}
Instructions == {"", "be brief"}
\* els.voice.value: nothing chosen, or a blank
Voices == {"", " "}
\* 5 * 60 * 1000 ms, the life of the voices cache, in ticks of 150 s
Ttl == 2
Calls == 1..MaxCalls

VARIABLES
    variant,        \* which client build runs
    pc,             \* let pc        : slot of the RTCPeerConnection, or NULL
    dc,             \* let dc        : slot of the RTCDataChannel, or NULL
    micStream,      \* let micStream : slot of the MediaStream, or NULL
    isConnected,    \* let isConnected
    isRecording,    \* let isRecording
    status,         \* els.status.textContent
    transcript,     \* els.transcript.textContent
    stream,         \* browser objects: the MediaStreams handed out by getUserMedia
    conn,           \* browser objects: the RTCPeerConnections created
    chan,           \* browser objects: readyState of the data channel of each pc
    seq,            \* one entry per connect() invocation: where it is suspended
    aiBuffer,       \* let aiBuffer : a sequence of characters
    promptApplied,  \* let promptApplied
    ttsQueue,       \* const ttsQueue (Variant A)
    ttsPlaying,     \* let ttsPlaying (Variant A)
    jobs,           \* one entry per playNextTts() invocation that took an item
    audio,          \* els.audio as the TTS worker and the mic button use it
    voiceId,        \* els.voiceId.value
    instructions,   \* els.instructions.value, trimmed
    voice,          \* els.voice.value (Variant B)
    sent,           \* browser objects: the messages sent over each data channel
    reqLog,         \* observation: the items POSTed to /tts, in order
    doneLog,        \* observation: the items whose playback ended, in order
    server,         \* server.js: the clock, elevenVoicesCache, the calls in flight
    turn,           \* observation: the text received since the last response.created
                    \* or flush event
    aborted,        \* observation: a response.created arrived over unflushed text
    cleanups,       \* observation: the calls of cleanup() in the last handler run
    sendErrors,     \* observation: the calls of send() that threw in that run
    loader,         \* where the voices loader of the page is (Variant A)
    last            \* the handler that ran last (observation only)

vars == <<variant, pc, dc, micStream, isConnected, isRecording, status,
          transcript, stream, conn, chan, seq, aiBuffer, promptApplied,
          ttsQueue, ttsPlaying, jobs, audio, voiceId, instructions, voice, sent,
          reqLog, doneLog, server, turn, aborted, cleanups, sendErrors, loader,
          last>>

(***************************************************************************)
(* The objects of the k-th live invocation of connect() -- the stream it   *)
(* captured, the connection and the channel it created -- live in slot k.  *)
(* The globals and browser objects that updateUI and cleanup work on are   *)
(* gathered in one record so that handlers compose as functions.           *)
(***************************************************************************)
G ==
    [pc |-> pc, dc |-> dc, micStream |-> micStream,
     isConnected |-> isConnected, isRecording |-> isRecording,
     status |-> status, transcript |-> transcript,
     stream |-> stream, conn |-> conn, chan |-> chan, sent |-> sent,
     aiBuffer |-> aiBuffer, promptApplied |-> promptApplied,
     ttsQueue |-> ttsQueue, ttsPlaying |-> ttsPlaying, jobs |-> jobs,
     audio |-> audio, reqLog |-> reqLog, doneLog |-> doneLog,
     turn |-> turn, aborted |-> aborted,
     cleanups |-> 0,    \* a handler run starts with no call of cleanup() made
     sendErrors |-> 0]  \* and with no send() that threw

SetG(g) ==
    /\ pc' = g.pc
    /\ dc' = g.dc
    /\ micStream' = g.micStream
    /\ isConnected' = g.isConnected
    /\ isRecording' = g.isRecording
    /\ status' = g.status
    /\ transcript' = g.transcript
    /\ stream' = g.stream
    /\ conn' = g.conn
    /\ chan' = g.chan
    /\ sent' = g.sent
    /\ aiBuffer' = g.aiBuffer
    /\ promptApplied' = g.promptApplied
    /\ ttsQueue' = g.ttsQueue
    /\ ttsPlaying' = g.ttsPlaying
    /\ jobs' = g.jobs
    /\ audio' = g.audio
    /\ reqLog' = g.reqLog
    /\ doneLog' = g.doneLog
    /\ turn' = g.turn
    /\ aborted' = g.aborted
    /\ cleanups' = g.cleanups
    /\ sendErrors' = g.sendErrors

\* placeholderEN of appendTranscript, the text cleanup() and the page show
Placeholder == "Tap the microphone to start speaking..."
\* placeholderJP of appendTranscript ('allow the microphone and speak'),
\* written with the \u escapes of its characters
PlaceholderJP ==
    "\\u30de\\u30a4\\u30af\\u3092\\u8a31\\u53ef\\u3057\\u3066\\u3001\\u8a71\\u3057\\u304b\\u3051\\u3066\\u304f\\u3060\\u3055\\u3044\\u3002"

\* els.transcript.textContent is a text set by setTranscript (head) followed
\* by the 'AI: <reply>\n' lines appended to it; a reply is a sequence of
\* pieces of text (Pieces below)
Text(t) == [head |-> t, lines |-> <<>>]

\* the characters of a reply, one piece after the other
RECURSIVE flat(_)
flat(text) == IF text = <<>> THEN "" ELSE Head(text) \o flat(Tail(text))

\* `AI: ${text}\n`
Line(text) == "AI: " \o flat(text) \o "\n"

RECURSIVE joinLines(_)
joinLines(ls) == IF ls = <<>> THEN "" ELSE Line(Head(ls)) \o joinLines(Tail(ls))

\* els.transcript.textContent as one string
textContent(t) == t.head \o joinLines(t.lines)

\* String.prototype.includes
includes(s, p) ==
    \E i \in 1..(Len(s) - Len(p) + 1) : SubSeq(s, i, i + Len(p) - 1) = p

\* els.audio: the clip it holds (src, Variant A) and whether the object URL of
\* that clip has been revoked, the remote stream it holds (srcObject: the
\* connection the stream came from, Variant B), whether it plays, and whether
\* a play() that nobody awaits is pending on it
NoAudio ==
    [src |-> NULL, revoked |-> FALSE, srcObject |-> NULL, state |-> "paused",
     asked |-> FALSE]

NoStream == [state |-> "none", enabled |-> FALSE]
NoConn ==
    [state |-> "none", connectionState |-> "new", iceGatheringState |-> "new",
     localDescription |-> FALSE, remoteDescription |-> FALSE, track |-> NULL,
     remoteTrack |-> FALSE,     \* a remote track was announced (pc.ontrack ran)
     listeners |-> <<>>]
NoSeq ==
    [at |-> "notStarted", on |-> NULL, timer |-> FALSE,
     resp |-> "",       \* r.status of the response whose body is being read
     reqs |-> {},       \* observation: the HTTP requests this invocation issued
     torn |-> FALSE]    \* observation: cleanup ran while it was suspended

\* The ellipsis character of three status texts of the source is written "...".
setStatus(g, s) == [g EXCEPT !.status = s]

setTranscript(g, t) == [g EXCEPT !.transcript = Text(t)]

\* appendTranscript(`AI: ${text}\n`): a transcript whose text includes one of
\* the two placeholders anywhere, be it in a reply shown earlier, is replaced
\* by the new line; any other is extended by it
appendTranscript(g, text) ==
    LET curr == textContent(g.transcript)
    IN  IF includes(curr, PlaceholderJP) \/ includes(curr, Placeholder)
        THEN [g EXCEPT !.transcript = [head |-> "", lines |-> <<text>>]]
        ELSE [g EXCEPT !.transcript.lines = Append(@, text)]

\* String.prototype.trim of a reply: blanks at both ends go
RECURSIVE trimStart(_)
trimStart(s) ==
    IF s # <<>> /\ Head(s) = " " THEN trimStart(Tail(s)) ELSE s

RECURSIVE trimEnd(_)
trimEnd(s) ==
    IF s # <<>> /\ s[Len(s)] = " " THEN trimEnd(SubSeq(s, 1, Len(s) - 1)) ELSE s

trim(s) == trimEnd(trimStart(s))

\* a worker that takes an item without raising ttsPlaying
playNextTtsNoFlag(g) ==
    IF g.ttsPlaying
    THEN g
    ELSE IF g.ttsQueue = <<>>
         THEN g
         ELSE LET item == Head(g.ttsQueue)
              IN  [g EXCEPT !.ttsQueue = Tail(@),
                            !.jobs[item.id] = "fetch",
                            !.reqLog = Append(@, item.id)]

\* a worker that takes the newest item of the queue
playNextTtsNewest(g) ==
    IF g.ttsPlaying
    THEN g
    ELSE IF g.ttsQueue = <<>>
         THEN g
         ELSE LET item == g.ttsQueue[Len(g.ttsQueue)]
              IN  [g EXCEPT !.ttsQueue = SubSeq(@, 1, Len(@) - 1),
                            !.ttsPlaying = TRUE,
                            !.jobs[item.id] = "fetch",
                            !.reqLog = Append(@, item.id)]

\* The synchronous part of playNextTts(), up to the await of fetch('/tts').
\* Items carry their enqueue number (observation); jobs[i] tells how far the
\* invocation that took item i has come:
\*   queued   the item is in ttsQueue
\*   fetch    await fetch('/tts')
\*   body     await r.arrayBuffer()
\*   play     await els.audio.play()
\*   ended    await the 'ended' event of els.audio
\*   played / failed   the invocation is over
playNextTts(g) ==
    IF g.ttsPlaying
    THEN g
    ELSE IF g.ttsQueue = <<>>
         THEN g
         ELSE LET item == Head(g.ttsQueue)
              IN  [g EXCEPT !.ttsQueue = Tail(@),
                            !.ttsPlaying = TRUE,
                            !.jobs[item.id] = "fetch",
                            !.reqLog = Append(@, item.id)]

\* an enqueueTts that pushes the item and starts no worker
enqueueTtsOnly(g, text, v) ==
    LET id == CHOOSE i \in Items :
                  /\ g.jobs[i] = "none"
                  /\ \A j \in Items : g.jobs[j] = "none" => i <= j
    IN  [g EXCEPT !.ttsQueue = Append(@, [text |-> text, voiceId |-> v, id |-> id]),
                  !.jobs[id] = "queued"]

\* enqueueTts(text, voiceId)
enqueueTts(g, text, v) ==
    LET id == CHOOSE i \in Items :
                  /\ g.jobs[i] = "none"
                  /\ \A j \in Items : g.jobs[j] = "none" => i <= j
        g1 == [g EXCEPT !.ttsQueue = Append(@, [text |-> text, voiceId |-> v, id |-> id]),
                        !.jobs[id] = "queued"]
    IN  IF ~g1.ttsPlaying THEN playNextTts(g1) ELSE g1

\* a finally block that lowers ttsPlaying and leaves the queue alone
ttsFinallyStalls(g, i, phase) == [g EXCEPT !.jobs[i] = phase, !.ttsPlaying = FALSE]

\* the finally block of playNextTts() of the job that took item i
ttsFinally(g, i, phase) ==
    LET g1 == [g EXCEPT !.jobs[i] = phase, !.ttsPlaying = FALSE]
    IN  IF g1.ttsQueue # <<>> THEN playNextTts(g1) ELSE g1

\* stopTts(): defined by Variant A, called from nowhere
stopTts(g) ==
    [g EXCEPT !.audio.state = "paused", !.audio.asked = FALSE, !.ttsQueue = <<>>, !.ttsPlaying = FALSE,
              !.jobs = [i \in Items |-> IF g.jobs[i] = "queued" THEN "dropped"
                                                              ELSE g.jobs[i]]]

\* flushAiSubtitle() without its last statement: the buffer keeps the reply
flushAiSubtitleKeepsBuffer(g) ==
    LET text == trim(g.aiBuffer)
        g1 == IF text # <<>> THEN appendTranscript(g, text) ELSE g
    IN  IF text # <<>> /\ variant = "A" THEN enqueueTts(g1, text, voiceId) ELSE g1

\* a flush that tests the buffer as received, without trimming it
flushAiSubtitleUntrimmed(g) ==
    LET text == g.aiBuffer
        g1 == IF text # <<>> THEN appendTranscript(g, text) ELSE g
        g2 == IF text # <<>> /\ variant = "A"
              THEN enqueueTts(g1, text, voiceId)
              ELSE g1
    IN  [g2 EXCEPT !.aiBuffer = <<>>]

\* flushAiSubtitle(): Variant A also hands the reply to the TTS queue
flushAiSubtitle(g) ==
    LET text == trim(g.aiBuffer)
        g1 == IF text # <<>> THEN appendTranscript(g, text) ELSE g
        g2 == IF text # <<>> /\ variant = "A"
              THEN enqueueTts(g1, text, voiceId)
              ELSE g1
    IN  [g2 EXCEPT !.aiBuffer = <<>>]

\* updateUI's inner helper: flips track.enabled of the CURRENT micStream only
setMicEnabled(g, on) ==
    IF g.micStream # NULL
    THEN [g EXCEPT !.stream[g.micStream].enabled = on]
    ELSE g

updateUI_idle(g) == setMicEnabled([g EXCEPT !.isRecording = FALSE], FALSE)

updateUI(g, state) ==
    CASE state = "idle" -> updateUI_idle(g)
      [] state = "recording" ->
            setMicEnabled([g EXCEPT !.isRecording = TRUE, !.isConnected = TRUE], TRUE)
      [] state = "connected" ->
            setMicEnabled(setStatus([g EXCEPT !.isConnected = TRUE],
                                    "Connected - Tap mic to speak"), FALSE)
      [] state = "connecting" -> setMicEnabled(setStatus(g, "Connecting..."), FALSE)
      [] state = "error" -> updateUI_idle(setStatus(g, "Connection failed"))

\* stopTracks(stream): every track of the stream is stopped
stopTracks(g, s) ==
    IF s = NULL THEN g ELSE [g EXCEPT !.stream[s].state = "ended"]

\* RTCDataChannel.close()
closeChannel(g, c) ==
    IF c # NULL /\ g.chan[c] \in {"connecting", "open"}
    THEN [g EXCEPT !.chan[c] = "closed"]
    ELSE g

\* RTCPeerConnection.close(): closes the transport and its data channels.
\* Nothing reads the descriptions, the senders or the listeners of a closed
\* connection again, so they are dropped.
closePc(g, p) ==
    IF p # NULL /\ g.conn[p].state = "open"
    THEN closeChannel(closeChannel(
                [g EXCEPT !.conn[p] = [NoConn EXCEPT !.state = "closed",
                                                     !.connectionState = "closed"]],
                p), Remote(p))
    ELSE g

\* a teardown that keeps its reference to the media stream
cleanupKeepsStream(g) ==
    LET g1 == [closeChannel(g, g.dc) EXCEPT !.dc = NULL]
        g2 == [closePc(g1, g1.pc) EXCEPT !.pc = NULL]
        g3 == stopTracks(g2, g2.micStream)
        g4 == [g3 EXCEPT !.isConnected = FALSE]
    IN  setTranscript(setStatus(updateUI(g4, "idle"), "Ready to connect"), Placeholder)

cleanup(g) ==
    LET g1 == [closeChannel(g, g.dc) EXCEPT !.dc = NULL]
        g2 == [closePc(g1, g1.pc) EXCEPT !.pc = NULL]
        g3 == [stopTracks(g2, g2.micStream) EXCEPT !.micStream = NULL]
        g4 == [g3 EXCEPT !.isConnected = FALSE, !.cleanups = @ + 1]
    IN  setTranscript(setStatus(updateUI(g4, "idle"), "Ready to connect"), Placeholder)

\* els.audio.play() with nobody awaiting the promise (the click handler of the
\* mic button, ensureAudioPlayback): without a clip or a stream nothing can
\* play, a playing element goes on playing, and a paused or ended one is
\* asked to play (again)
callPlay(g) ==
    IF (g.audio.src = NULL /\ g.audio.srcObject = NULL) \/ g.audio.state = "playing"
    THEN g
    ELSE [g EXCEPT !.audio.asked = TRUE]

\* ensureAudioPlayback() of Variant B: unmutes the element, sets its volume
\* and calls play()
ensureAudioPlayback(g) == callPlay(g)

\* pc.ontrack of Variant B for a track of connection p: the remote stream
\* becomes the source of the element, which drops what it played and what was
\* pending on it, and ensureAudioPlayback() is called.  (Variant A's handler
\* does nothing.)
ontrack(g, p) ==
    ensureAudioPlayback(
        [g EXCEPT !.audio = [@ EXCEPT !.srcObject = p, !.state = "paused",
                                      !.asked = FALSE],
                  !.conn[p].remoteTrack = TRUE])

\* the control messages the client sends, by type and content
Msg(type, detail) == [type |-> type, detail |-> detail]

\* RTCDataChannel.send(): throws when the channel is not open, and may throw
\* on an open one (the message does not fit the channel's buffer, the
\* transport has just gone); ok is what the browser does with this call.
\* Every caller wraps the call in try/catch: a send that threw sent nothing.
send(g, c, m, ok) ==
    IF g.chan[c] = "open" /\ ok
    THEN [g EXCEPT !.sent[c] = Append(@, m)]
    ELSE [g EXCEPT !.sendErrors = @ + 1]

FlushKinds ==
    {"response.output_text.done", "response.completed",
     "response.audio_transcript.done", "response.done"}
DeltaKinds == {"response.output_text.delta", "response.audio_transcript.delta"}
\* what the handler only logs or ignores: the error events, a type it does
\* not know, data that JSON.parse rejects
NoiseKinds == {"error", "response.error", "unknown", "nonjson"}
MsgKinds ==
    FlushKinds \cup DeltaKinds \cup NoiseKinds \cup
    {"response.created", "session.updated", "input_audio_buffer.committed",
     "output_audio_buffer.started"}

\* the pieces of text a reply is made of: a letter, a blank, and the two
\* placeholder sentences, which a reply may contain like any other text
Pieces == {"a", " ", Placeholder, PlaceholderJP}

\* msg.delta || '' : a delta event may carry no text
Deltas == {<<>>} \cup {<<x>> : x \in Pieces}

\* the deltas of replies made of letters and blanks
PlainDeltas == {<<>>, <<"a">>, <<" ">>}

\* handleEventMessage without the reset at response.created
handleEventMessageNoReset(g, kind, delta, ok) ==
    CASE kind = "input_audio_buffer.committed" /\ variant = "B" ->
            IF g.dc # NULL /\ g.chan[g.dc] = "open"
            THEN send(g, g.dc, Msg("response.create", "auto: audio, text"), ok)
            ELSE g
      [] kind \in DeltaKinds -> [g EXCEPT !.aiBuffer = @ \o delta]
      [] kind \in FlushKinds -> flushAiSubtitle(g)
      [] kind = "session.updated" ->
            setStatus([g EXCEPT !.promptApplied = TRUE], "Prompt applied")
      [] kind = "output_audio_buffer.started" /\ variant = "B" ->
            ensureAudioPlayback(g)
      [] OTHER -> g

\* handleEventMessage that gives the session up on an error event
handleEventMessageErrorEnds(g, kind, delta, ok) ==
    CASE kind = "response.created" -> [g EXCEPT !.aiBuffer = <<>>]
      [] kind = "input_audio_buffer.committed" /\ variant = "B" ->
            IF g.dc # NULL /\ g.chan[g.dc] = "open"
            THEN send(g, g.dc, Msg("response.create", "auto: audio, text"), ok)
            ELSE g
      [] kind \in DeltaKinds -> [g EXCEPT !.aiBuffer = @ \o delta]
      [] kind \in FlushKinds -> flushAiSubtitle(g)
      [] kind = "session.updated" ->
            setStatus([g EXCEPT !.promptApplied = TRUE], "Prompt applied")
      [] kind = "output_audio_buffer.started" /\ variant = "B" ->
            ensureAudioPlayback(g)
      [] kind \in {"error", "response.error"} -> cleanup(g)
      [] OTHER -> g

\* handleEventMessage asking for a response whatever channel dc names
handleEventMessageAnyChannel(g, kind, delta, ok) ==
    CASE kind = "response.created" -> [g EXCEPT !.aiBuffer = <<>>]
      [] kind = "input_audio_buffer.committed" /\ variant = "B" ->
            [g EXCEPT !.sent = [c \in Chans |->
                IF g.chan[c] = "open"
                THEN Append(@[c], Msg("response.create", "auto: audio, text"))
                ELSE @[c]]]
      [] kind \in DeltaKinds -> [g EXCEPT !.aiBuffer = @ \o delta]
      [] kind \in FlushKinds -> flushAiSubtitle(g)
      [] kind = "session.updated" ->
            setStatus([g EXCEPT !.promptApplied = TRUE], "Prompt applied")
      [] kind = "output_audio_buffer.started" /\ variant = "B" ->
            ensureAudioPlayback(g)
      [] OTHER -> g

\* handleEventMessage(data): the dispatch on msg.type.  The branches that only
\* log leave the state modelled here alone; ok tells whether the send() of the
\* committed branch goes through.
handleEventMessage(g, kind, delta, ok) ==
    CASE kind = "response.created" -> [g EXCEPT !.aiBuffer = <<>>]
      [] kind = "input_audio_buffer.committed" /\ variant = "B" ->
            IF g.dc # NULL /\ g.chan[g.dc] = "open"
            THEN send(g, g.dc, Msg("response.create", "auto: audio, text"), ok)
            ELSE g
      [] kind \in DeltaKinds -> [g EXCEPT !.aiBuffer = @ \o delta]
      [] kind \in FlushKinds -> flushAiSubtitle(g)
      [] kind = "session.updated" ->
            setStatus([g EXCEPT !.promptApplied = TRUE], "Prompt applied")
      [] kind = "output_audio_buffer.started" /\ variant = "B" ->
            ensureAudioPlayback(g)
      [] OTHER -> g

\* The status texts of the Apply button are Japanese; each is written with
\* the \u escapes of its characters, as JSON.stringify renders it in ASCII.
\* 'the prompt is empty'
PromptEmptyText ==
    "\\u30d7\\u30ed\\u30f3\\u30d7\\u30c8\\u304c\\u7a7a\\u3067\\u3059"
\* 'the system prompt was applied'
PromptAppliedText ==
    "\\u30b7\\u30b9\\u30c6\\u30e0\\u30d7\\u30ed\\u30f3\\u30d7\\u30c8\\u3092\\u9069\\u7528\\u3057\\u307e\\u3057\\u305f"
\* 'can be applied once connected'
PromptNotConnectedText ==
    "\\u63a5\\u7d9a\\u5f8c\\u306b\\u9069\\u7528\\u3067\\u304d\\u307e\\u3059"

\* 'applying the prompt failed'
PromptFailedText ==
    "\\u30d7\\u30ed\\u30f3\\u30d7\\u30c8\\u9069\\u7528\\u306b\\u5931\\u6557\\u3057\\u307e\\u3057\\u305f"

\* els.applyPrompt click handler, text being the trimmed instructions field
\* and ok the outcome of dc.send(): a send that throws lands in the catch
\* clause of the handler.
applyPrompt(g, text, ok) ==
    IF text = ""
    THEN setStatus(g, PromptEmptyText)
    ELSE IF g.dc # NULL /\ g.chan[g.dc] = "open"
         THEN LET g1 == send(g, g.dc, Msg("session.update", "instructions"), ok)
              IN  IF g1.sendErrors = g.sendErrors
                  THEN setStatus(g1, PromptAppliedText)
                  ELSE setStatus(g1, PromptFailedText)
         ELSE setStatus(g, PromptNotConnectedText)

\* micButton click handler: connectPromise.catch(...)
clickCatch(g) == cleanup(updateUI(g, "error"))

(***************************************************************************)
(* connect(): an async function.  seq[k].at names the await at which the   *)
(* invocation in slot k is suspended:                                      *)
(*   mic1, mic2  getUserMedia (enhanced constraints, then audio:true)      *)
(*   session     fetch('/session')                                         *)
(*   sessionBody r.text() or r.json() of its response                      *)
(*   offer       pc.createOffer()                                          *)
(*   setLocal    pc.setLocalDescription(offer)                             *)
(*   ice         the ICE-gathering promise (listener + 2 s timer)          *)
(*   sdp         fetch(api.openai.com/v1/realtime)                         *)
(*   sdpBody     sdpResponse.text()                                        *)
(*   setRemote   pc.setRemoteDescription(answer)                           *)
(* and returned / rejected say how the promise settled.                    *)
(* `pc.x` inside connect reads the GLOBAL pc at the time the statement     *)
(* runs; seq[k].on is the connection a pending operation was invoked on.   *)
(* A step yields the pair [g, q]: the new globals and the new seq.         *)
(***************************************************************************)
Pair(g, q) == [g |-> g, q |-> q]

Settled == {"returned", "rejected"}

\* a connect() that marks the conversation Recording as it resolves
ReturnRecording(g, q, k) ==
    Pair(updateUI(g, "recording"),
         [q EXCEPT ![k] = [NoSeq EXCEPT !.at = "returned", !.reqs = q[k].reqs,
                                        !.torn = q[k].torn]])

\* the promise returned by connect() resolves
Return(g, q, k) ==
    Pair(g, [q EXCEPT ![k] = [NoSeq EXCEPT !.at = "returned", !.reqs = q[k].reqs,
                                           !.torn = q[k].torn]])

\* connect() throws: the promise rejects and the click handler's catch runs
Throw(g, q, k) ==
    Pair(clickCatch(g),
         [q EXCEPT ![k] = [NoSeq EXCEPT !.at = "rejected", !.reqs = q[k].reqs,
                                        !.torn = q[k].torn]])

\* `return cleanup()` in Variant A; `cleanup(); throw ...` in Variant B
CleanupAndLeave(g, q, k) ==
    IF variant = "A" THEN Return(cleanup(g), q, k) ELSE Throw(cleanup(g), q, k)

\* a connect() without the guard at its entry
connectUnguarded(g, q, k) ==
    Pair(updateUI(g, "connecting"),
         IF k = NULL THEN q ELSE [q EXCEPT ![k].at = "mic1"])

\* the entry of connect(), up to the first getUserMedia call
connect(g, q, k) ==
    IF g.pc # NULL
    THEN Pair(g, q)
    ELSE Pair(updateUI(g, "connecting"), [q EXCEPT ![k].at = "mic1"])

\* getUserMedia resolved with a new stream; its tracks are muted at once and
\* the credential is requested
micGranted(g, q, k) ==
    LET g1 == [g EXCEPT !.micStream = k,
                        !.stream[k] = [state |-> "live", enabled |-> TRUE]]
        g2 == setMicEnabled(g1, FALSE)
    IN  Pair(setStatus(g2, "fetching session..."),
             [q EXCEPT ![k].at = "session", ![k].reqs = @ \cup {"session"}])

\* a connect() that goes on to the credential request without a stream
micDeniedGoesOn(g, q, k) ==
    IF q[k].at = "mic1"
    THEN Pair(g, [q EXCEPT ![k].at = "mic2"])
    ELSE Pair(setStatus(g, "fetching session..."),
              [q EXCEPT ![k].at = "session", ![k].reqs = @ \cup {"session"}])

\* getUserMedia rejected: retry once with audio:true, then give up
micDenied(g, q, k) ==
    IF q[k].at = "mic1"
    THEN Pair(g, [q EXCEPT ![k].at = "mic2"])
    ELSE Return(updateUI(setStatus(g, "Microphone permission denied"), "error"), q, k)

\* catch (err) of the session try block
sessionCatch(g, q, k) ==
    CleanupAndLeave(setStatus(g, "failed to reach /session"), q, k)

\* the characters of t.slice(0, 120)
SliceLen == 120

\* String.prototype.slice(0, n)
slice(t, n) == IF Len(t) <= n THEN t ELSE SubSeq(t, 1, n)

\* `/session ${r.status}: ${t?.slice(0,120) || 'error'}`
SessionStatusText(code, t) ==
    "/session " \o code \o ": " \o
        (IF slice(t, SliceLen) = "" THEN "error" ELSE slice(t, SliceLen))

\* fetch('/session') resolved with a response: the body is read next, with
\* r.text() when the status is not ok and with r.json() otherwise
sessionResponse(g, q, k, code) ==
    Pair(g, [q EXCEPT ![k].at = "sessionBody", ![k].resp = code])

\* the non-ok branch of the session fetch.  In Variant B the throw sits inside
\* the try block, so the catch clause runs as well.
sessionNotOk(g, q, k, code, t) ==
    LET g1 == setStatus(g, SessionStatusText(code, t))
    IN  IF variant = "A"
        THEN Return(cleanup(g1), q, k)
        ELSE sessionCatch(cleanup(g1), q, k)

\* if (!sess?.client_secret)
sessionInvalid(g, q, k) ==
    CleanupAndLeave(setStatus(g, "invalid session response"), q, k)

\* new RTCPeerConnection, addTrack, attachChannel(createDataChannel), the
\* handlers, and the call of createOffer
createPeer(g, q, k) ==
    LET g1 == [g EXCEPT !.pc = k,
                        !.conn[k] = [NoConn EXCEPT !.state = "open"]]
    IN  IF g1.micStream = NULL
        THEN Throw(g1, q, k)      \* micStream.getAudioTracks(): TypeError
        ELSE LET g2 == [g1 EXCEPT !.conn[k].track = g1.micStream,
                                  !.dc = k,
                                  !.chan[k] = "connecting"]
             IN  Pair(setStatus(g2, "creating offer..."),
                      [q EXCEPT ![k].at = "offer", ![k].on = k, ![k].resp = ""])

\* pc.setLocalDescription(offer) is called on the global pc
callSetLocal(g, q, k) ==
    IF g.pc = NULL
    THEN Throw(g, q, k)
    ELSE Pair(g, [q EXCEPT ![k].at = "setLocal", ![k].on = g.pc])

\* catch (err) of the SDP try block
sdpCatch(g, q, k) ==
    CleanupAndLeave(setStatus(g, "SDP exchange network error"), q, k)

\* fetch(api.openai.com/v1/realtime) resolved with a response: the body is
\* read next with sdpResponse.text()
sdpResponseArrives(g, q, k, code) ==
    Pair(g, [q EXCEPT ![k].at = "sdpBody", ![k].resp = code])

\* after the ICE wait: POST the offer
postOffer(g, q, k) ==
    LET g1 == setStatus(g, "exchanging SDP...")
    IN  IF g1.pc = NULL \/ ~g1.conn[g1.pc].localDescription
        THEN sdpCatch(g1, q, k)   \* pc.localDescription.sdp: TypeError, caught
        ELSE Pair(g1, [q EXCEPT ![k].at = "sdp", ![k].on = NULL, ![k].timer = FALSE,
                                ![k].reqs = @ \cup {"sdp"}])

\* pc.removeEventListener('icegatheringstatechange', check) of invocation k
RemoveSeq(ls, k) == SelectSeq(ls, LAMBDA x : x # k)

removeListener(g, k) ==
    [g EXCEPT !.conn[g.pc].listeners = RemoveSeq(@, k)]

\* the executor of the ICE-gathering promise
startIceWait(g, q, k) ==
    IF g.pc = NULL
    THEN Throw(g, q, k)           \* pc.iceGatheringState: the promise rejects
    ELSE IF g.conn[g.pc].iceGatheringState = "complete"
         THEN postOffer(g, q, k)
         ELSE Pair([g EXCEPT !.conn[g.pc].listeners = Append(@, k)],
                   [q EXCEPT ![k].at = "ice", ![k].on = NULL, ![k].timer = TRUE])

\* the listener `check` of invocation k
check(g, q, k) ==
    IF g.pc = NULL
    THEN Pair(g, q)               \* TypeError inside the listener: nothing happens
    ELSE IF g.conn[g.pc].iceGatheringState = "complete"
         THEN IF q[k].at = "ice"
              THEN postOffer(removeListener(g, k), q, k)
              ELSE Pair(removeListener(g, k), q)
         ELSE Pair(g, q)

\* the callback of the 2 s fallback timer of invocation k
iceTimer(g, q, k) ==
    IF g.pc = NULL
    THEN Pair(g, [q EXCEPT ![k].timer = FALSE])   \* TypeError: resolve() not reached
    ELSE postOffer(removeListener(g, k), q, k)

\* the browser runs the listeners of a connection in registration order
RECURSIVE runListeners(_, _, _)
runListeners(g, q, ls) ==
    IF ls = <<>>
    THEN Pair(g, q)
    ELSE LET r == check(g, q, Head(ls))
         IN  runListeners(r.g, r.q, Tail(ls))

\* the non-ok branch of the SDP exchange; in Variant B the throw is caught by
\* the catch clause of the same try block
sdpNotOk(g, q, k) ==
    LET g1 == setStatus(g, "SDP exchange failed")
    IN  IF variant = "A"
        THEN Return(cleanup(g1), q, k)
        ELSE sdpCatch(cleanup(g1), q, k)

\* pc.setRemoteDescription(...) is called on the global pc
callSetRemote(g, q, k) ==
    IF g.pc = NULL
    THEN Throw(g, q, k)
    ELSE Pair(g, [q EXCEPT ![k].at = "setRemote", ![k].on = g.pc, ![k].resp = ""])

\* a handler that only shows the state it is told
onconnectionstatechangeStatusOnly(g) ==
    IF g.pc = NULL THEN g ELSE setStatus(g, g.conn[g.pc].connectionState)

\* pc.onconnectionstatechange; the handler reads the connectionState of the
\* GLOBAL pc
onconnectionstatechange(g) ==
    IF g.pc = NULL
    THEN g                        \* pc.connectionState: TypeError, nothing happens
    ELSE LET cs == g.conn[g.pc].connectionState
             g1 == setStatus(g, cs)
         IN  IF variant = "A"
             THEN IF cs \in {"failed", "closed", "disconnected"}
                  THEN cleanup(g1)
                  ELSE g1
             ELSE IF cs \in {"failed", "closed"}
                  THEN cleanup(g1)
                  ELSE IF cs = "disconnected"
                       THEN setStatus(g1,
                              "Connection temporarily lost, attempting to reconnect...")
                       ELSE g1

\* String.prototype.trim of a string of the page
RECURSIVE strTrimStart(_)
strTrimStart(t) ==
    IF Len(t) = 0 THEN ""
    ELSE IF SubSeq(t, 1, 1) = " " THEN strTrimStart(SubSeq(t, 2, Len(t)))
    ELSE t

RECURSIVE strTrimEnd(_)
strTrimEnd(t) ==
    IF Len(t) = 0 THEN ""
    ELSE IF SubSeq(t, Len(t), Len(t)) = " " THEN strTrimEnd(SubSeq(t, 1, Len(t) - 1))
    ELSE t

strTrim(t) == strTrimEnd(strTrimStart(t))

\* (els.voice?.value || 'alloy').trim()
voiceOf(vo) == strTrim(IF vo = "" THEN "alloy" ELSE vo)

\* the messages ch.onopen sends: Variant A sends the instructions, if any, and
\* asks for a first response; Variant B sends the instructions with the voice,
\* or the voice alone when it is not blank
OpenSends(v, text, vo) ==
    IF v = "A"
    THEN (IF text # "" THEN <<Msg("session.update", "instructions")>> ELSE <<>>)
            \o <<Msg("response.create", "default: text")>>
    ELSE IF text # ""
         THEN <<Msg("session.update", "instructions, voice")>>
         ELSE IF voiceOf(vo) # ""
              THEN <<Msg("session.update", "voice")>>
              ELSE <<>>

\* the outcomes of the (at most two) send() calls of one run of ch.onopen
SendOutcomes == [1..2 -> BOOLEAN]
AllSent == [i \in 1..2 |-> TRUE]

\* the sends of ch.onopen, each in its own try/catch; oks[i] is the outcome of
\* the i-th call
RECURSIVE sendAll(_, _, _, _, _)
sendAll(g, c, ms, oks, i) ==
    IF i > Len(ms) THEN g ELSE sendAll(send(g, c, ms[i], oks[i]), c, ms, oks, i + 1)

\* attachChannel(ch): dc = ch, and the handlers (onopen, ChannelMessage) are
\* installed on ch
attachChannel(g, c) == [g EXCEPT !.dc = c]

\* ch.onopen of attachChannel
onopen(g, c, oks) ==
    setStatus(updateUI(sendAll(g, c, OpenSends(variant, instructions, voice), oks, 1),
                       "recording"),
              "Listening...")

(***************************************************************************)
(* server.js, GET /voices.  server.calls[c] is the call of                 *)
(* getElevenVoices() in slot c: the await it is suspended at (fetch, json) *)
(* and its value of `now`, or NoCall; server.fetched tells whether some    *)
(* call has fetched a list and which of those calls started last           *)
(* (observation).                                                          *)
(***************************************************************************)
NoCall == [at |-> "idle", now |-> 0]

\* let elevenVoicesCache = { at: 0, data: null }
Started ==
    [clock |-> 0,
     cache |-> [at |-> 0, data |-> FALSE],
     calls |-> [c \in Calls |-> NoCall],
     fetched |-> [ever |-> FALSE, at |-> 0]]

\* the test at the head of getElevenVoices(): the cache holds data younger
\* than the TTL
cacheIsFresh(sv, now) == sv.cache.data /\ (now - sv.cache.at) < Ttl

\* getElevenVoices() up to its return of the cached list or its await of the
\* upstream fetch, called in slot c (ELEVENLABS_API_KEY is configured)
getElevenVoices(sv, c) ==
    IF cacheIsFresh(sv, sv.clock)
    THEN sv
    ELSE [sv EXCEPT !.calls[c] = [at |-> "fetch", now |-> sv.clock]]

\* getElevenVoices() after await fetch(...): a response that is not ok throws
\* (as does a rejected fetch); of an ok response the body is read next
voicesResponse(sv, c, ok) ==
    IF ok
    THEN [sv EXCEPT !.calls[c].at = "json"]
    ELSE [sv EXCEPT !.calls[c] = NoCall]

\* what r.json() settles with: the list of voices, a JSON value that is falsy
\* (null, false, 0, ""), a rejection (the body is no JSON)
JsonBodies == {"list", "falsy", "invalid"}

\* getElevenVoices() after await r.json(): a rejection throws; any value read
\* is stored with the `now` of the call's start, a falsy one too (the test at
\* the head of the function then finds no data)
voicesSettled(sv, c, body) ==
    LET now == sv.calls[c].now
        sv1 == [sv EXCEPT !.calls[c] = NoCall]
    IN  CASE body = "list" ->
                [sv1 EXCEPT !.cache = [at |-> now, data |-> TRUE],
                            !.fetched = [ever |-> TRUE,
                                         at |-> IF @.ever /\ @.at > now THEN @.at ELSE now]]
          [] body = "falsy" -> [sv1 EXCEPT !.cache = [at |-> now, data |-> FALSE]]
          [] OTHER -> sv1

\* The voices loader of Variant A (the async function run at page load): the
\* value els.voiceId has once the list has arrived.  voices is the list of
\* ids received, stored the id kept in localStorage ("" for none), isSelect
\* whether the element is a SELECT (its options are rebuilt and the browser
\* selects the first) or still an input (a value already there is kept).
loadedVoiceId(cur, voices, stored, isSelect) ==
    LET first == IF voices = <<>> THEN "" ELSE voices[1]
        found == stored # "" /\ \E n \in 1..Len(voices) : voices[n] = stored
    IN  IF isSelect
        THEN IF found THEN stored ELSE first
        ELSE IF cur # "" THEN cur
             ELSE IF stored # "" THEN stored ELSE first

\* the lists of voices GET /voices may answer with
VoiceLists == {<<>>, <<"voice1">>}

\* the page has loaded, with text in the instructions field; ld tells where
\* the voices loader of Variant A is (Variant B has none)
Loaded(text, vo, ld) ==
    /\ variant \in Variants
    /\ loader = (IF variant = "A" THEN ld ELSE "done")
    /\ voice = vo
    /\ pc = NULL
    /\ dc = NULL
    /\ micStream = NULL
    /\ isConnected = FALSE
    /\ isRecording = FALSE
    /\ status = "Ready to connect"
    /\ transcript = Text(Placeholder)
    /\ stream = [k \in Slots |-> NoStream]
    /\ conn = [k \in Slots |-> NoConn]
    /\ chan = [c \in Chans |-> "none"]
    /\ sent = [c \in Chans |-> <<>>]
    /\ instructions = text
    /\ seq = [k \in Slots |-> NoSeq]
    /\ aiBuffer = <<>>
    /\ promptApplied = FALSE
    /\ ttsQueue = <<>>
    /\ ttsPlaying = FALSE
    /\ jobs = [i \in Items |-> "none"]
    /\ audio = NoAudio
    /\ voiceId = ""
    /\ reqLog = <<>>
    /\ doneLog = <<>>
    /\ server = Started
    /\ turn = <<>>
    /\ aborted = FALSE
    /\ cleanups = 0
    /\ sendErrors = 0
    /\ last = "load"

Init == Loaded("", "", "fetch")

(***************************************************************************)
(* Actions.  Set(r, name) installs the result of a step.                   *)
(***************************************************************************)
Set(r, name) ==
    /\ SetG(r.g)
    /\ seq' = r.q
    /\ last' = name
    /\ UNCHANGED <<variant, voiceId, instructions, voice, server, loader>>

\* Slot k can hold a new invocation: the previous one has settled and nothing
\* of it can act any more (stream ended, connection and channel closed, no
\* reference to them left).
Free(k) ==
    /\ seq[k].at \in {"notStarted"} \cup Settled
    /\ stream[k].state # "live"
    /\ conn[k].state # "open"
    /\ chan[k] \notin {"connecting", "open"}
    /\ chan[Remote(k)] \notin {"connecting", "open"}
    /\ pc # k /\ dc # k /\ dc # Remote(k) /\ micStream # k
    /\ \A j \in Slots :
          /\ seq[j].on # k
          /\ conn[j].state = "open" =>
                /\ conn[j].track # k
                /\ \A i \in 1..Len(conn[j].listeners) : conn[j].listeners[i] # k

FreeSlots(n) == {k \in 1..n : Free(k)}

NextSlot(n) == CHOOSE k \in FreeSlots(n) : \A j \in FreeSlots(n) : k <= j

\* the objects of slot k before a new invocation uses it
Fresh(g, k) ==
    [g EXCEPT !.stream[k] = NoStream, !.conn[k] = NoConn, !.chan[k] = "none",
              !.sent[k] = <<>>, !.chan[Remote(k)] = "none",
              !.sent[Remote(k)] = <<>>]

\* els.micButton click handler.  n bounds the invocations of connect() alive at
\* once: a tap that would start one more is left out.
MicButtonClick(n) ==
    IF ~isConnected
    THEN IF pc # NULL
         THEN Set(connect(setTranscript(callPlay(G), "Connecting..."), seq, NULL),
                  "click:mic")
         ELSE /\ FreeSlots(n) # {}
              /\ LET k == NextSlot(n)
                 IN  Set(connect(Fresh(setTranscript(callPlay(G), "Connecting..."), k),
                                 [seq EXCEPT ![k] = NoSeq], k),
                         "click:mic")
    ELSE IF isRecording
         THEN Set(Pair(setStatus(updateUI(G, "idle"), "Connected - Tap mic to speak"),
                       seq), "click:mic")
         ELSE Set(Pair(setStatus(updateUI(G, "recording"), "Listening..."), seq),
                  "click:mic")

\* els.holdButton click handler
HoldButtonClick ==
    /\ isConnected /\ isRecording
    /\ Set(Pair(setStatus(updateUI(G, "idle"), "Paused - Tap mic to resume"), seq),
           "click:hold")

\* els.applyPrompt click handler; ok is the outcome of its dc.send(), if it
\* calls it.  A click that would send one message more than MaxSent over the
\* channel is left out.
ApplyPromptClick(ok) ==
    /\ IF instructions # "" /\ dc # NULL /\ chan[dc] = "open"
       THEN Len(sent[dc]) < MaxSent
       ELSE ok
    /\ Set(Pair(applyPrompt(G, instructions, ok), seq), "click:apply")

\* observation: cleanup ran from another handler while these were suspended
MarkTorn(q) ==
    [k \in Slots |->
        IF q[k].at \in {"notStarted"} \cup Settled
        THEN q[k]
        ELSE [q[k] EXCEPT !.torn = TRUE]]

\* els.endButton click handler: disconnect() -> cleanup()
EndButtonClick ==
    Set(Pair(cleanup(G), seq), "click:end")

\* the same handler, observed: the invocations it interrupts are marked
EndButtonClickObserved ==
    Set(Pair(cleanup(G), MarkTorn(seq)), "click:end")

\* navigator.mediaDevices.getUserMedia settles
GetUserMediaSettles(k, granted) ==
    /\ seq[k].at \in {"mic1", "mic2"}
    /\ IF granted
       THEN Set(micGranted(G, seq, k), "mic:granted")
       ELSE Set(micDenied(G, seq, k), "mic:denied")

HttpErrors == {"401", "500"}

\* what fetch settles with: a network error, or a response with its status
FetchOutcomes == {"neterr", "200"} \cup HttpErrors

\* a body of more than SliceLen characters
LongBody ==
    "{\"error\":\"Failed to create realtime session\",\"details\":\"{ \\\"error\\\": { \\\"message\\\": \\\"Incorrect API key provided\\\", \\\"type\\\": \\\"invalid_request_error\\\" } }\"}"

\* the text of a response that is not ok, as r.text() gives it
Bodies == {"", "upstream error", LongBody}

\* how the read of a body ends: r.text() rejects ("unreadable", for which
\* .catch gives '') or gives the text; r.json() rejects ("badjson") or gives an
\* object without client_secret or a credential
TextOutcomes == {"unreadable"} \cup Bodies
JsonOutcomes == {"badjson", "nosecret", "valid"}

\* fetch('/session') settles: a network error, or a response
SessionFetchSettles(k, outcome) ==
    /\ seq[k].at = "session"
    /\ IF outcome = "neterr"
       THEN Set(sessionCatch(G, seq, k), "session:neterr")
       ELSE Set(sessionResponse(G, seq, k, outcome), "session:response")

\* the read of the body of the /session response settles
SessionBodySettles(k, outcome) ==
    /\ seq[k].at = "sessionBody"
    /\ LET code == seq[k].resp IN
       IF code # "200"
       THEN /\ outcome \in TextOutcomes
            /\ Set(sessionNotOk(G, seq, k, code,
                                IF outcome = "unreadable" THEN "" ELSE outcome),
                   "session:" \o code)
       ELSE /\ outcome \in JsonOutcomes
            /\ CASE outcome = "badjson" -> Set(sessionCatch(G, seq, k), "session:badjson")
                 [] outcome = "nosecret" ->
                        Set(sessionInvalid(G, seq, k), "session:nosecret")
                 [] outcome = "valid" -> Set(createPeer(G, seq, k), "session:valid")

\* An operation pending on a closed connection either never settles or rejects
\* (ok = FALSE); on an open one it resolves.
CreateOfferSettles(k, ok) ==
    /\ seq[k].at = "offer"
    /\ ok <=> conn[seq[k].on].state = "open"
    /\ IF ok
       THEN Set(callSetLocal(G, seq, k), "offer:resolved")
       ELSE Set(Throw(G, seq, k), "offer:rejected")

\* An offer applied to a connection that did not create it may be refused.
SetLocalSettles(k, ok) ==
    /\ seq[k].at = "setLocal"
    /\ LET p == seq[k].on IN
       /\ ok => conn[p].state = "open"
       /\ ~ok => (conn[p].state # "open" \/ p # k)
       /\ IF ok
          THEN Set(startIceWait([G EXCEPT !.conn[p].localDescription = TRUE], seq, k),
                   "setLocal:resolved")
          ELSE Set(Throw(G, seq, k), "setLocal:rejected")

GatheringStates == {"gathering", "complete"}

\* RTCIceGatheringState: once the local description is set the ICE agent
\* starts gathering candidates, and then finishes
CanGather(from, v) ==
    CASE v = "gathering" -> from = "new"
      [] v = "complete" -> from = "gathering"

\* icegatheringstatechange of connection p: its listeners run on every change
IceGatheringStateChange(p, v) ==
    /\ conn[p].state = "open"
    /\ conn[p].localDescription
    /\ CanGather(conn[p].iceGatheringState, v)
    /\ LET g == [G EXCEPT !.conn[p].iceGatheringState = v]
       IN  Set(runListeners(g, seq, g.conn[p].listeners), "ice:" \o v)

IceTimeout(k) ==
    /\ seq[k].timer
    /\ Set(iceTimer(G, seq, k), "ice:timer")

\* fetch(api.openai.com/v1/realtime) settles: a network error, or a response
SdpFetchSettles(k, outcome) ==
    /\ seq[k].at = "sdp"
    /\ IF outcome = "neterr"
       THEN Set(sdpCatch(G, seq, k), "sdp:neterr")
       ELSE Set(sdpResponseArrives(G, seq, k, outcome), "sdp:response")

\* sdpResponse.text() settles: of a response that is not ok the text is only
\* logged (.catch gives '' when it cannot be read); of an ok one it is the
\* answer, and a rejection is caught by the catch clause
SdpBodySettles(k, readable) ==
    /\ seq[k].at = "sdpBody"
    /\ LET code == seq[k].resp IN
       IF code # "200"
       THEN Set(sdpNotOk(G, seq, k), "sdp:" \o code)
       ELSE IF readable
            THEN Set(callSetRemote(G, seq, k), "sdp:answer")
            ELSE Set(sdpCatch(G, seq, k), "sdp:bodyerr")

\* An answer is refused by a connection that already has one; one applied to
\* a connection that did not send the offer may be refused.
SetRemoteSettles(k, ok) ==
    /\ seq[k].at = "setRemote"
    /\ LET p == seq[k].on IN
       /\ ok => (conn[p].state = "open" /\ ~conn[p].remoteDescription)
       /\ ~ok => (conn[p].state # "open" \/ conn[p].remoteDescription \/ p # k)
       /\ IF ok
          THEN Set(Return([G EXCEPT !.conn[p].remoteDescription = TRUE], seq, k),
                   "setRemote:resolved")
          ELSE Set(Throw(G, seq, k), "setRemote:rejected")

ReportedStates == {"connecting", "connected", "disconnected", "failed", "closed"}

\* RTCPeerConnectionState: the transitions a transport makes once the answer is
\* applied (no ICE restart is ever requested, so "failed" is left only by closing)
CanReport(from, v) ==
    CASE v = "connecting" -> from = "new"
      [] v = "connected" -> from \in {"connecting", "disconnected"}
      [] v = "disconnected" -> from = "connected"
      [] v = "failed" -> from \in {"connecting", "connected", "disconnected"}
      [] v = "closed" -> TRUE

\* the transport of connection p changes state and the browser reports it.
\* The label tells a report of the current connection ("pc:") from one of a
\* connection the client no longer refers to ("stale:").
ConnectionStateChange(p, v) ==
    /\ conn[p].state = "open"
    /\ conn[p].remoteDescription
    /\ CanReport(conn[p].connectionState, v)
    /\ LET g0 == IF v = "closed"
                 THEN closePc(G, p)
                 ELSE [G EXCEPT !.conn[p].connectionState = v]
       IN  Set(Pair(onconnectionstatechange(g0), seq),
               (IF p = pc THEN "pc:" ELSE "stale:") \o v)

\* the data channel c opens once the transport of its connection is connected
\* (oks: the outcomes of the sends of ch.onopen; a call it does not make has
\* no outcome to choose)
DataChannelOpen(c, oks) ==
    /\ chan[c] = "connecting"
    /\ conn[ConnOf(c)].state = "open"
    /\ conn[ConnOf(c)].connectionState = "connected"
    /\ \A i \in 1..2 : i > Len(OpenSends(variant, instructions, voice)) => oks[i]
    /\ Set(Pair(onopen([G EXCEPT !.chan[c] = "open"], c, oks), seq), "dc:open")

\* the remote side closes the data channel c while the connection stays up:
\* ch.onclose only logs, and dc goes on naming the closed channel
DataChannelClose(c) ==
    /\ chan[c] = "open"
    /\ conn[ConnOf(c)].state = "open"
    /\ Set(Pair([G EXCEPT !.chan[c] = "closed"], seq), "dc:close")

\* pc.ontrack of connection p (Variant B): the browser announces a remote
\* track while the answer is applied or after it.  Variant A offers to send
\* only, so its answer carries no track, and its handler does nothing.
RemoteTrack(p) ==
    /\ variant = "B"
    /\ conn[p].state = "open"
    /\ \/ conn[p].remoteDescription
       \/ \E k \in Slots : seq[k].at = "setRemote" /\ seq[k].on = p
    /\ Set(Pair(ontrack(G, p), seq), "pc:track")

\* t.onunmute of a remote track of connection p (Variant B): media arrives on
\* the track and ensureAudioPlayback() is called
RemoteTrackUnmute(p) ==
    /\ variant = "B"
    /\ conn[p].state = "open"
    /\ conn[p].remoteTrack
    /\ Set(Pair(ensureAudioPlayback(G), seq), "track:unmute")

\* pc.ondatachannel of connection p: the remote side announces a channel of
\* its own (one per connection here) and attachChannel makes it dc
RemoteDataChannel(p) ==
    /\ conn[p].state = "open"
    /\ conn[p].connectionState = "connected"
    /\ chan[Remote(p)] = "none"
    /\ Set(Pair(attachChannel([G EXCEPT !.chan[Remote(p)] = "connecting"], Remote(p)),
                seq), "pc:datachannel")

\* the branch of handleEventMessage a message takes (observation)
MsgClass(kind) ==
    CASE kind = "response.created" -> "created"
      [] kind = "input_audio_buffer.committed" /\ variant = "B" -> "committed"
      [] kind \in NoiseKinds -> "noise"
      [] kind \in DeltaKinds -> "delta"
      [] kind \in FlushKinds -> "flush"
      [] kind = "session.updated" -> "updated"
      [] kind = "output_audio_buffer.started" /\ variant = "B" -> "audio"
      [] OTHER -> "other"

\* the labels of a completion event: the first of a run of completion events,
\* and one that follows another completion event directly
FlushLabels == {"msg:flush", "msg:reflush"}

\* observation: the text of the turn that the events received make up, and
\* whether a turn was abandoned by a response.created with its text unflushed
Received(g, kind, delta) ==
    CASE kind = "response.created" ->
            [g EXCEPT !.turn = <<>>, !.aborted = @ \/ trim(g.turn) # <<>>]
      [] kind \in DeltaKinds -> [g EXCEPT !.turn = @ \o delta]
      [] kind \in FlushKinds -> [g EXCEPT !.turn = <<>>]
      [] OTHER -> g

\* A message arrives on the open channel c.  Deltas that would overflow the
\* model's buffer and replies beyond MaxItems are left out.
ChannelMessage(c, kind, delta, ok) ==
    /\ chan[c] = "open"
    /\ ok \/ (kind = "input_audio_buffer.committed" /\ variant = "B"
                /\ dc # NULL /\ chan[dc] = "open")
    /\ kind \in DeltaKinds => Len(aiBuffer) + Len(delta) <= MaxBuf
    /\ kind \notin DeltaKinds => delta = <<>>
    /\ (kind = "input_audio_buffer.committed" /\ variant = "B" /\ dc # NULL) =>
            Len(sent[dc]) < MaxSent
    /\ (kind \in FlushKinds /\ trim(aiBuffer) # <<>>) =>
            /\ Len(transcript.lines) < MaxItems
            /\ variant = "A" => \E i \in Items : jobs[i] = "none"
    /\ Set(Pair(handleEventMessage(Received(G, kind, delta), kind, delta, ok), seq),
           IF kind \in FlushKinds /\ last \in FlushLabels
           THEN "msg:reflush"
           ELSE "msg:" \o MsgClass(kind))

\* what fetch('/tts') settles with: a network error, a response that is not
\* ok, an ok response
TtsOutcomes == {"neterr", "notok", "ok"}

\* fetch('/tts') settles for the job of item i: a rejection lands in catch, a
\* response that is not ok is logged, and both end the job in finally; of an
\* ok response the body is read next
TtsFetchSettles(i, outcome) ==
    /\ jobs[i] = "fetch"
    /\ IF outcome = "ok"
       THEN Set(Pair([G EXCEPT !.jobs[i] = "body"], seq), "tts:response")
       ELSE Set(Pair(ttsFinally(G, i, "failed"), seq), "tts:failed")

\* the clip of item i is handed to the audio element: URL.createObjectURL,
\* els.audio.pause(), els.audio.src = url, and the call of els.audio.play()
loadClip(g, i) ==
    [g EXCEPT !.audio = [@ EXCEPT !.src = i, !.revoked = FALSE, !.state = "paused",
                                  !.asked = FALSE],
              !.jobs[i] = "play"]

\* r.arrayBuffer() settles for the job of item i: the clip is handed to the
\* audio element, or the rejection lands in catch and the job ends in finally
TtsBodySettles(i, ok) ==
    /\ jobs[i] = "body"
    /\ IF ok
       THEN Set(Pair(loadClip(G, i), seq), "tts:audio")
       ELSE Set(Pair(ttsFinally(G, i, "failed"), seq), "tts:bodyerr")

\* the element starts to play its clip: every play() pending on it resolves,
\* and the job that awaits one goes on to wait for 'ended'
playStarts(g) ==
    [g EXCEPT !.audio.state = "playing", !.audio.asked = FALSE,
              !.jobs = [i \in Items |->
                          IF @[i] = "play" /\ g.audio.src = i THEN "ended" ELSE @[i]]]

\* els.audio.play() settles for the job of item i: playback started, or the
\* promise rejected (swallowed by .catch); the job then waits for 'ended'
AudioPlaySettles(i, started) ==
    /\ jobs[i] = "play"
    /\ started => audio.src = i
    /\ IF started
       THEN Set(Pair(playStarts(G), seq), "play:started")
       ELSE Set(Pair([G EXCEPT !.jobs[i] = "ended"], seq), "play:rejected")

\* the element has something it can play: a clip it has loaded, or a remote
\* stream whose connection is open.  Whether a clip whose object URL has been
\* revoked still plays is up to the browser (the element has loaded it, the
\* URL no longer resolves): UnawaitedPlaySettles has both outcomes.
Playable ==
    IF audio.srcObject = NULL
    THEN audio.src # NULL
    ELSE conn[audio.srcObject].state = "open"

\* a play() that nobody awaits (click handler, ensureAudioPlayback) settles:
\* playback started, or the promise rejected (swallowed by .catch)
UnawaitedPlaySettles(started) ==
    /\ audio.asked
    /\ started => Playable
    /\ IF started
       THEN Set(Pair(playStarts(G), seq), "audio:started")
       ELSE Set(Pair([G EXCEPT !.audio.asked = FALSE], seq), "audio:rejected")

\* the 'ended' listeners of els.audio run, each resuming its job, which
\* revokes the object URL of its clip and ends in finally
RECURSIVE onEnd(_, _)
onEnd(g, i) ==
    IF i > MaxItems
    THEN g
    ELSE IF g.jobs[i] = "ended"
         THEN onEnd(ttsFinally([g EXCEPT !.doneLog = Append(@, i),
                                         !.audio.revoked = (@ \/ g.audio.src = i)],
                               i, "played"),
                    i + 1)
         ELSE onEnd(g, i + 1)

\* els.audio reaches the end of the clip; a remote stream ends once its
\* connection is closed
AudioEnded ==
    /\ audio.state = "playing"
    /\ audio.srcObject # NULL => conn[audio.srcObject].state # "open"
    /\ Set(Pair(onEnd([G EXCEPT !.audio.state = "ended"], 1), seq), "audio:ended")

\* what fetch('/voices') of the page settles with
VoicesOutcomes == {"neterr", "notok", "ok"}

\* The voices loader of Variant A, started when the page loads: its
\* fetch('/voices') settles.  A rejection and a response that is not ok end
\* the loader with els.voiceId as it was; of an ok response the body is read.
VoicesLoaderFetchSettles(outcome) ==
    /\ variant = "A"
    /\ loader = "fetch"
    /\ SetG(G)
    /\ seq' = seq
    /\ loader' = (IF outcome = "ok" THEN "json" ELSE "done")
    /\ last' = (IF outcome = "ok" THEN "loader:response" ELSE "loader:failed")
    /\ UNCHANGED <<variant, voiceId, instructions, voice, server>>

\* r.json() of the loader settles: a rejection is swallowed by its catch, a
\* list sets els.voiceId.value
VoicesLoaderJsonSettles(ok, voices, stored, isSelect) ==
    /\ variant = "A"
    /\ loader = "json"
    /\ ~ok => (voices = <<>> /\ stored = "" /\ isSelect)
    /\ SetG(G)
    /\ seq' = seq
    /\ loader' = "done"
    /\ voiceId' = (IF ok THEN loadedVoiceId(voiceId, voices, stored, isSelect)
                        ELSE voiceId)
    /\ last' = (IF ok THEN "loader:loaded" ELSE "loader:failed")
    /\ UNCHANGED <<variant, instructions, voice, server>>

\* the ways the credential request and the SDP exchange end
SessionOutcomes == {"neterr", "badjson", "nosecret", "valid"} \cup HttpErrors
SdpOutcomes == {"neterr", "bodyerr", "answer"} \cup HttpErrors

\* what the browser and the network do to the invocations in flight
Environment ==
    \/ \E k \in Slots, b \in BOOLEAN : GetUserMediaSettles(k, b)
    \/ \E k \in Slots, o \in FetchOutcomes : SessionFetchSettles(k, o)
    \/ \E k \in Slots, o \in TextOutcomes \cup JsonOutcomes : SessionBodySettles(k, o)
    \/ \E k \in Slots, b \in BOOLEAN : CreateOfferSettles(k, b)
    \/ \E k \in Slots, b \in BOOLEAN : SetLocalSettles(k, b)
    \/ \E p \in Slots, v \in GatheringStates : IceGatheringStateChange(p, v)
    \/ \E k \in Slots : IceTimeout(k)
    \/ \E k \in Slots, o \in FetchOutcomes : SdpFetchSettles(k, o)
    \/ \E k \in Slots, b \in BOOLEAN : SdpBodySettles(k, b)
    \/ \E k \in Slots, b \in BOOLEAN : SetRemoteSettles(k, b)
    \/ \E p \in Slots, v \in ReportedStates : ConnectionStateChange(p, v)
    \/ \E c \in Slots, oks \in SendOutcomes : DataChannelOpen(c, oks)
    \/ \E c \in Slots : DataChannelClose(c)
    \/ \E p \in Slots : RemoteTrack(p)
    \/ \E p \in Slots : RemoteTrackUnmute(p)
    \/ \E b \in BOOLEAN : UnawaitedPlaySettles(b)
    \/ AudioEnded
    \/ \E o \in VoicesOutcomes : VoicesLoaderFetchSettles(o)
    \/ \E ok, isSelect \in BOOLEAN, voices \in VoiceLists, stored \in VoiceIds :
          VoicesLoaderJsonSettles(ok, voices, stored, isSelect)

Next ==
    \/ MicButtonClick(MaxConnects)
    \/ HoldButtonClick
    \/ EndButtonClick
    \/ \E ok \in BOOLEAN : ApplyPromptClick(ok)
    \/ Environment

Spec == Init /\ [][Next]_vars

\* the browser and the network when the microphone is granted, every request
\* is answered with success, the offer and both descriptions are accepted,
\* every send() on the open channel goes through, the transport, once
\* connected, stays so, and the remote side keeps its channel open and sends
\* no media
EnvironmentAnswers ==
    \/ \E k \in Slots : GetUserMediaSettles(k, TRUE)
    \/ \E k \in Slots : SessionFetchSettles(k, "200")
    \/ \E k \in Slots : SessionBodySettles(k, "valid")
    \/ \E k \in Slots : CreateOfferSettles(k, TRUE)
    \/ \E k \in Slots : SetLocalSettles(k, TRUE)
    \/ \E p \in Slots, v \in GatheringStates : IceGatheringStateChange(p, v)
    \/ \E k \in Slots : IceTimeout(k)
    \/ \E k \in Slots : SdpFetchSettles(k, "200")
    \/ \E k \in Slots : SdpBodySettles(k, TRUE)
    \/ \E k \in Slots : SetRemoteSettles(k, TRUE)
    \/ \E p \in Slots, v \in {"connecting", "connected"} : ConnectionStateChange(p, v)
    \/ \E c \in Slots : DataChannelOpen(c, AllSent)

\* taps that overlap, with the microphone granted, the network answering and
\* the transport healthy
NextOverlap ==
    \/ MicButtonClick(MaxOverlap)
    \/ HoldButtonClick
    \/ EndButtonClick
    \/ ApplyPromptClick(TRUE)
    \/ EnvironmentAnswers

\* the page once its voices loader has finished without a voice to choose
InitOverlap == Loaded("", "", "done")

SpecOverlap == InitOverlap /\ [][NextOverlap]_vars

\* Spec with the instructions field filled in, or not, before the session
InitPrompt ==
    \E text \in Instructions, vo \in Voices :
        Loaded(text, vo, "fetch") /\ (variant = "A" => vo = "")

SpecPrompt == InitPrompt /\ [][Next]_vars

\* Spec with a remote side that may announce a data channel of its own
NextRemote ==
    \/ Next
    \/ \E p \in Slots : RemoteDataChannel(p)
    \/ \E p \in Slots, oks \in SendOutcomes : DataChannelOpen(Remote(p), oks)
    \/ \E p \in Slots : DataChannelClose(Remote(p))

SpecRemote == Init /\ [][NextRemote]_vars

\* Spec with the timers and the browser's ICE agent doing their work: a timer
\* that was set fires, gathering that was started finishes
SpecFair ==
    /\ Spec
    /\ WF_vars(\E k \in Slots : IceTimeout(k))
    /\ WF_vars(\E p \in Slots, v \in GatheringStates : IceGatheringStateChange(p, v))

\* The server's events change nothing of a client.
ServerStep(sv, name) ==
    /\ server' = sv
    /\ last' = name
    /\ UNCHANGED <<variant, pc, dc, micStream, isConnected, isRecording, status,
                   transcript, stream, conn, chan, seq, aiBuffer, promptApplied,
                   ttsQueue, ttsPlaying, jobs, audio, voiceId, instructions, voice,
                   sent, reqLog, doneLog, turn, aborted, cleanups, sendErrors,
                   loader>>

\* Date.now() moves on
Tick ==
    /\ server.clock < MaxClock
    /\ ServerStep([server EXCEPT !.clock = @ + 1], "tick")

\* GET /voices arrives and calls getElevenVoices()
VoicesRequest(c) ==
    /\ server.calls[c].at = "idle"
    /\ ServerStep(getElevenVoices(server, c),
                  IF cacheIsFresh(server, server.clock) THEN "voices:cached"
                                                        ELSE "voices:fetch")

\* the upstream fetch of the call in slot c settles
VoicesFetchSettles(c, ok) ==
    /\ server.calls[c].at = "fetch"
    /\ ServerStep(voicesResponse(server, c, ok),
                  IF ok THEN "voices:response" ELSE "voices:failed")

\* the read of the body of the call in slot c settles
VoicesJsonSettles(c, body) ==
    /\ server.calls[c].at = "json"
    /\ ServerStep(voicesSettled(server, c, body),
                  CASE body = "list" -> "voices:fetched"
                    [] body = "falsy" -> "voices:falsy"
                    [] OTHER -> "voices:failed")

NextVoices ==
    \/ Tick
    \/ \E c \in Calls : VoicesRequest(c)
    \/ \E c \in Calls, ok \in BOOLEAN : VoicesFetchSettles(c, ok)
    \/ \E c \in Calls, body \in JsonBodies : VoicesJsonSettles(c, body)

SpecVoices == Init /\ [][NextVoices]_vars

\* Spec with the End button observed
NextObserved ==
    \/ MicButtonClick(MaxConnects)
    \/ HoldButtonClick
    \/ EndButtonClickObserved
    \/ \E ok \in BOOLEAN : ApplyPromptClick(ok)
    \/ Environment

SpecObserved == Init /\ [][NextObserved]_vars

\* a session established by the invocation in slot 1: variant v, with the
\* instructions text and the ElevenLabs voice vid chosen before the mic tap;
\* in Variant B els.voice holds nothing or a blank
Session(v, text, vid, ld) ==
    /\ variant = v
    /\ loader = (IF v = "A" THEN ld ELSE "done")
    /\ pc = 1 /\ dc = 1 /\ micStream = 1
    /\ isConnected = TRUE /\ isRecording = TRUE
    /\ status = "Listening..."
    /\ transcript = Text("Connecting...")
    /\ stream = [k \in Slots |-> IF k = 1 THEN [state |-> "live", enabled |-> TRUE]
                                          ELSE NoStream]
    /\ conn = [k \in Slots |->
                 IF k = 1
                 THEN [state |-> "open", connectionState |-> "connected",
                       iceGatheringState |-> "complete", localDescription |-> TRUE,
                       remoteDescription |-> TRUE, track |-> 1,
                       remoteTrack |-> FALSE, listeners |-> <<>>]
                 ELSE NoConn]
    /\ chan = [c \in Chans |-> IF c = 1 THEN "open" ELSE "none"]
    /\ voice \in (IF v = "B" THEN Voices ELSE {""})
    /\ sent = [c \in Chans |-> IF c = 1 THEN OpenSends(v, text, voice) ELSE <<>>]
    /\ seq = [k \in Slots |->
                 IF k = 1
                 THEN [NoSeq EXCEPT !.at = "returned", !.reqs = {"session", "sdp"}]
                 ELSE NoSeq]
    /\ aiBuffer = <<>>
    /\ promptApplied = FALSE
    /\ ttsQueue = <<>>
    /\ ttsPlaying = FALSE
    /\ jobs = [i \in Items |-> "none"]
    /\ audio = NoAudio
    /\ voiceId = vid
    /\ instructions = text
    /\ reqLog = <<>>
    /\ doneLog = <<>>
    /\ server = Started
    /\ turn = <<>>
    /\ aborted = FALSE
    /\ cleanups = 0
    /\ sendErrors = 0
    /\ last = "dc:open"

\* Variant A with a session established; the voices loader of the page has
\* finished, with a voice chosen or none, or its request is still pending
Established ==
    \/ \E vid \in VoiceIds : Session("A", "", vid, "done")
    \/ Session("A", "", "", "fetch")

\* the session of slot 1 established while a second connect() went on: the
\* second invocation has since replaced pc and dc with its own connection and
\* its still connecting channel, and the first channel stays open
Superseded(v, text) ==
    /\ variant = v
    /\ loader = "done"
    /\ pc = 2 /\ dc = 2 /\ micStream = 2
    /\ isConnected = TRUE /\ isRecording = TRUE
    /\ status = "Listening..."
    /\ transcript = Text("Connecting...")
    /\ stream = [k \in Slots |-> [state |-> "live", enabled |-> (k = 2)]]
    /\ conn = [k \in Slots |->
                 IF k = 1
                 THEN [state |-> "open", connectionState |-> "connected",
                       iceGatheringState |-> "new", localDescription |-> TRUE,
                       remoteDescription |-> TRUE, track |-> 2,
                       remoteTrack |-> FALSE, listeners |-> <<>>]
                 ELSE [NoConn EXCEPT !.state = "open", !.connectionState = "new",
                                     !.iceGatheringState = "new", !.track = 2]]
    /\ chan = [c \in Chans |-> IF c = 1 THEN "open"
                               ELSE IF c = 2 THEN "connecting" ELSE "none"]
    /\ voice \in (IF v = "B" THEN Voices ELSE {""})
    /\ sent = [c \in Chans |-> IF c = 1 THEN OpenSends(v, text, voice) ELSE <<>>]
    /\ seq = [k \in Slots |->
                 IF k = 1
                 THEN [NoSeq EXCEPT !.at = "returned", !.reqs = {"session", "sdp"}]
                 ELSE [NoSeq EXCEPT !.at = "offer", !.on = 2, !.reqs = {"session"}]]
    /\ aiBuffer = <<>>
    /\ promptApplied = FALSE
    /\ ttsQueue = <<>>
    /\ ttsPlaying = FALSE
    /\ jobs = [i \in Items |-> "none"]
    /\ audio = NoAudio
    /\ voiceId = ""
    /\ instructions = text
    /\ reqLog = <<>>
    /\ doneLog = <<>>
    /\ server = Started
    /\ turn = <<>>
    /\ aborted = FALSE
    /\ cleanups = 0
    /\ sendErrors = 0
    /\ last = "dc:open"

\* the events of a reply, and one event the client does not know
ReplyKinds == {"response.created", "unknown"} \cup DeltaKinds \cup FlushKinds

\* the events channel and the TTS worker of an established session, the
\* remote side closing the channel, and the buttons; after End the mic button
\* asks the audio element to play and starts a connect() whose microphone
\* prompt stays open
NextTts ==
    \/ \E c \in Slots, kind \in ReplyKinds, d \in PlainDeltas :
          ChannelMessage(c, kind, d, TRUE)
    \/ \E i \in Items, o \in TtsOutcomes : TtsFetchSettles(i, o)
    \/ \E i \in Items, b \in BOOLEAN : TtsBodySettles(i, b)
    \/ \E i \in Items, b \in BOOLEAN : AudioPlaySettles(i, b)
    \/ AudioEnded
    \/ EndButtonClick
    \/ MicButtonClick(MaxConnects)
    \/ \E b \in BOOLEAN : UnawaitedPlaySettles(b)
    \/ HoldButtonClick
    \/ \E ok \in BOOLEAN : ApplyPromptClick(ok)
    \/ \E c \in Slots : DataChannelClose(c)
    \/ \E o \in VoicesOutcomes : VoicesLoaderFetchSettles(o)
    \/ \E ok, isSelect \in BOOLEAN, voices \in VoiceLists, stored \in VoiceIds :
          VoicesLoaderJsonSettles(ok, voices, stored, isSelect)

SpecTts == Established /\ [][NextTts]_vars

\* the flushes of the events channel interleaved with the awaits of the TTS
\* worker, and nothing else
NextWorker ==
    \/ \E c \in Slots, kind \in ReplyKinds, d \in PlainDeltas :
          ChannelMessage(c, kind, d, TRUE)
    \/ \E i \in Items, o \in TtsOutcomes : TtsFetchSettles(i, o)
    \/ \E i \in Items, b \in BOOLEAN : TtsBodySettles(i, b)
    \/ \E i \in Items, b \in BOOLEAN : AudioPlaySettles(i, b)
    \/ AudioEnded

SpecWorker == Established /\ [][NextWorker]_vars

\* the events of an established session in either variant: every message of
\* the data channel, the remote side closing the channel, the remote audio of
\* Variant B, and the buttons (the microphone prompt of a connect() started
\* after End stays open)
InitChannel ==
    \E v \in Variants, text \in Instructions :
        Session(v, text, "", "done") \/ Superseded(v, text)

NextChannel ==
    \/ \E c \in Slots, kind \in MsgKinds, delta \in PlainDeltas, ok \in BOOLEAN :
          ChannelMessage(c, kind, delta, ok)
    \/ EndButtonClick
    \/ HoldButtonClick
    \/ MicButtonClick(MaxConnects)
    \/ \E ok \in BOOLEAN : ApplyPromptClick(ok)
    \/ \E c \in Slots : DataChannelClose(c)
    \/ \E p \in Slots : RemoteTrack(p)
    \/ \E p \in Slots : RemoteTrackUnmute(p)
    \/ \E b \in BOOLEAN : UnawaitedPlaySettles(b)
    \/ AudioEnded

SpecChannel == InitChannel /\ [][NextChannel]_vars

\* what is shown of the replies: the messages of the data channel, with
\* replies that may hold a placeholder sentence, and the buttons that set the
\* transcript (End restores the placeholder, a mic tap after End shows
\* 'Connecting...' and starts a connect() whose microphone prompt stays open)
NextTranscript ==
    \/ \E c \in Slots, kind \in MsgKinds, delta \in Deltas :
          ChannelMessage(c, kind, delta, TRUE)
    \/ EndButtonClick
    \/ MicButtonClick(MaxConnects)

SpecTranscript == InitChannel /\ [][NextTranscript]_vars

(***************************************************************************)
(* Properties.                                                             *)
(***************************************************************************)
\* the conversation state Idle: nothing is referenced, nothing is on
Idle(g) ==
    /\ g.pc = NULL /\ g.dc = NULL /\ g.micStream = NULL
    /\ ~g.isConnected /\ ~g.isRecording

\* the invocations of connect() that have started and not settled
Running == {k \in Slots : seq[k].at \notin {"notStarted"} \cup Settled}

\* the browser objects nobody has released
OpenConns == {p \in Slots : conn[p].state = "open"}
LiveStreams == {s \in Slots : stream[s].state = "live"}

\* the TTS jobs between their request and their end
InFlight == {i \in Items : jobs[i] \in {"fetch", "body", "play", "ended"}}

\* C1: in both variants a report of 'disconnected' by the current connection
\* changes the status text only: references, flags, transcript and every
\* browser object stay as they were.
C1_DisconnectedStatusOnly ==
    [][last' = "pc:disconnected" =>
          /\ UNCHANGED <<pc, dc, micStream, isConnected, isRecording, transcript,
                         stream, chan>>
          /\ \A p \in Slots : conn'[p].state = conn[p].state]_vars

C1_VariantBKeepsSession ==
    /\ variant = "B"
    /\ last = "pc:disconnected"
    /\ pc # NULL /\ conn[pc].state = "open"
    /\ status = "Connection temporarily lost, attempting to reconnect..."

\* C2: when the current connection reports 'failed' or 'closed', the handler
\* tears everything down: the connection and its channel are closed, the
\* tracks of the media stream are stopped, and the state is Idle.
C2_FailedClosedTearDown ==
    [][last' \in {"pc:failed", "pc:closed"} =>
          /\ Idle(G)'
          /\ conn'[pc].state = "closed"
          /\ dc # NULL => chan'[dc] = "closed"
          /\ micStream # NULL => stream'[micStream].state = "ended"]_vars

C2_TornDownAfterFailed ==
    /\ last = "pc:failed"
    /\ Idle(G)
    /\ conn[1].state = "closed" /\ chan[1] = "closed" /\ stream[1].state = "ended"
    /\ status = "Ready to connect"

\* C3: at most one invocation of connect() runs at a time, it issues at most
\* one credential request, and at most one unclosed peer connection and one
\* live media stream exist.
C3_OneConnectAtATime ==
    /\ Cardinality(Running) <= 1
    /\ Cardinality(OpenConns) <= 1
    /\ Cardinality(LiveStreams) <= 1

\* C4: once an invocation of connect() that was suspended when End ran the
\* teardown has settled, the state is Idle and the stream, the channel and the
\* connection of that invocation are released.
C4_TeardownDuringConnect ==
    \A k \in Slots :
        (seq[k].torn /\ seq[k].at \in Settled) =>
            /\ Idle(G)
            /\ stream[k].state # "live"
            /\ chan[k] \notin {"connecting", "open"}
            /\ conn[k].state # "open"

\* a state without the count of the calls that led to it
Uncounted(g) == [g EXCEPT !.cleanups = 0, !.sendErrors = 0]

\* C5: in every reachable state cleanup leaves the state Idle, and a second
\* cleanup changes nothing the first one established; with nothing referenced
\* it touches no browser object.
C5_CleanupIdempotent ==
    /\ Idle(cleanup(G))
    /\ Uncounted(cleanup(cleanup(G))) = Uncounted(cleanup(G))
    /\ (pc = NULL /\ dc = NULL /\ micStream = NULL) =>
            /\ cleanup(G).stream = stream
            /\ cleanup(G).conn = conn
            /\ cleanup(G).chan = chan

C5_CleanupAfterSession ==
    /\ last = "click:end"
    /\ conn[1].state = "closed" /\ stream[1].state = "ended"
    /\ seq[1].at = "returned"
    /\ Uncounted(cleanup(G)) = G

\* C6: a mic tap that calls connect() while a peer connection exists changes
\* nothing but the transcript text the click handler itself sets: references,
\* flags, status, browser objects and the invocations in flight stay as they
\* were, so no capture is attempted and no request issued.
C6_ConnectWithPcIsNoOp ==
    [][(last' = "click:mic" /\ pc # NULL /\ ~isConnected) =>
          UNCHANGED <<pc, dc, micStream, isConnected, isRecording, status,
                      stream, conn, chan, seq>>]_vars

C6_TapDuringNegotiation ==
    /\ last = "click:mic"
    /\ pc # NULL /\ ~isConnected
    /\ status = "creating offer..."
    /\ seq[1].at = "offer"

\* C7: the tracks of the current media stream are enabled exactly when
\* isRecording is true.
C7_MicEnabledIffRecording ==
    micStream # NULL => (stream[micStream].enabled <=> isRecording)

C7_RecordingWithLiveMic ==
    /\ micStream # NULL
    /\ isRecording
    /\ stream[micStream].enabled
    /\ stream[micStream].state = "live"

\* C8: Variant A requests the items from /tts in the order of their enqueueing
\* and their playbacks end in that order.
C8_TtsFifo ==
    /\ \A n \in 1..Len(reqLog) : reqLog[n] = n
    /\ \A m, n \in 1..Len(doneLog) : m < n => doneLog[m] < doneLog[n]

C8_ThreePlayedInOrder ==
    /\ reqLog = <<1, 2, 3>>
    /\ doneLog = <<1, 2, 3>>

\* the item whose clip the audio element is playing
Playing == IF audio.state = "playing" /\ audio.src # NULL THEN {audio.src} ELSE {}

\* C9: in every interleaving of the flushes with the awaits of the worker, at
\* most one playback item is being fetched or played: the items between their
\* /tts request and the end of their playback, together with the item whose
\* clip the audio element plays, are at most one.
C9_OneTtsInFlight ==
    Cardinality(InFlight \cup Playing) <= 1

\* the worker by itself, whatever the buttons do: at most one of its jobs is
\* between its /tts request and the end of its playback
C9_OneJobInFlight ==
    Cardinality(InFlight) <= 1

\* with the buttons: the element plays a clip beside the job in flight only
\* when a mic tap has replayed a clip whose job had ended and whose object
\* URL had been revoked
C9_OneTtsUnlessReplay ==
    \/ Cardinality(InFlight \cup Playing) <= 1
    \/ audio.revoked /\ audio.src \notin InFlight

\* a reply was flushed while another one was playing
C9_FlushWhilePlaying ==
    /\ audio.state = "playing"
    /\ ttsQueue # <<>>
    /\ last = "msg:flush"

\* C10: the teardown leaves the TTS queue empty and nothing playing, and after
\* it no item is requested from /tts and no playback runs to its end.
C10_TeardownStopsTts ==
    [][/\ last' = "click:end" => (ttsQueue' = <<>> /\ audio'.state # "playing")
       /\ pc = NULL => (reqLog' = reqLog /\ doneLog' = doneLog)]_vars

\* the invocation in slot k settles in this step
Settles(k) ==
    /\ seq[k].at \notin {"notStarted"} \cup Settled
    /\ seq'[k].at \in Settled

\* the handler runs that end a connect attempt by a setup failure
SetupFailures ==
    {"mic:denied"} \cup {"session:" \o o : o \in SessionOutcomes \ {"valid"}}
                   \cup {"sdp:" \o o : o \in SdpOutcomes \ {"answer"}}

\* C11: a connect attempt that ends by a setup failure leaves the state Idle
\* and the transcript showing the placeholder.
C11_SetupFailureEndsIdle ==
    [][(last' \in SetupFailures /\ \E k \in Slots : Settles(k)) =>
          /\ Idle(G)'
          /\ transcript' = Text(Placeholder)]_vars

\* C12: when the second capture attempt of an invocation fails too, the
\* invocation ends there: it has issued no request and created no stream,
\* connection or channel; the step changes no reference, leaves isRecording
\* false, and a
\* state with nothing referenced ends Idle.
C12_MicDeniedNoRequest ==
    [][\A k \in Slots : (last' = "mic:denied" /\ seq[k].at = "mic2" /\ seq'[k] # seq[k]) =>
          /\ seq'[k].at = "returned"
          /\ seq'[k].reqs = {}
          /\ stream'[k].state = "none" /\ conn'[k].state = "none" /\ chan'[k] = "none"
          /\ UNCHANGED <<pc, dc, micStream, isConnected>>
          /\ ~isRecording'
          /\ (pc = NULL /\ dc = NULL /\ micStream = NULL /\ ~isConnected) => Idle(G)']_vars

C12_DeniedTwice ==
    /\ last = "mic:denied"
    /\ seq[1].at = "returned" /\ seq[1].reqs = {}
    /\ conn[1].state = "none"
    /\ Idle(G)

\* C13: when both capture attempts fail, the attempt ends with the status
\* 'Microphone permission denied'.
C13_MicDeniedStatus ==
    [][(last' = "mic:denied" /\ \E k \in Slots : Settles(k)) =>
          status' = "Microphone permission denied"]_vars

\* C14: when /session answers 401, the attempt ends Idle and the status still
\* shows the 401.
C14_Session401Status ==
    [][last' = "session:401" =>
          /\ Idle(G)'
          /\ \E t \in Bodies : status' = SessionStatusText("401", t)]_vars

\* C15: when the SDP exchange answers with a non-success status, cleanup runs
\* exactly once and the tracks of the media stream are stopped.
C15_SdpFailureOneCleanup ==
    [][last' \in {"sdp:" \o code : code \in HttpErrors} =>
          /\ cleanups' = 1
          /\ micStream # NULL => stream'[micStream].state = "ended"]_vars

\* C16 (amended): the AI Reply Buffer is empty immediately after each
\* response.created event is processed, whatever it held before, so no text
\* of one turn reaches the next.
C16_EmptyAfterCreated ==
    [][last' = "msg:created" => aiBuffer' = <<>>]_vars

\* C16 as stated: the AI Reply Buffer is empty immediately before each
\* response.created event is processed.
C16_EmptyBeforeCreated ==
    [][last' = "msg:created" => aiBuffer = <<>>]_vars

\* a second turn has been created after a first one was flushed
C16_NextTurnCreated ==
    /\ last = "msg:created"
    /\ Len(transcript.lines) = 1
    /\ aiBuffer = <<>>

\* C17: immediately after any flush event is processed the AI Reply Buffer is
\* empty, whatever it held before.
C17_EmptyAfterFlush ==
    [][last' \in FlushLabels => aiBuffer' = <<>>]_vars

\* MaxItems replies have been flushed to the transcript
C17_RepliesFlushed ==
    /\ last = "msg:flush"
    /\ Len(transcript.lines) = MaxItems
    /\ aiBuffer = <<>>

ResponseCreateOnCommitted == Msg("response.create", "auto: audio, text")

\* C18 as stated: in Variant B an input_audio_buffer.committed event processed
\* while the event channel (dc) is open appends exactly one response.create
\* (audio and text) to what that channel has sent, and nothing is sent on any
\* channel when dc is not open.
C18_CommittedAsksOnce ==
    [][last' = "msg:committed" =>
          IF dc # NULL /\ chan[dc] = "open"
          THEN sent' = [sent EXCEPT ![dc] = Append(@, ResponseCreateOnCommitted)]
          ELSE sent' = sent]_vars

\* C18 amended: in Variant B an input_audio_buffer.committed event processed
\* while the event channel (dc) is open calls send() once, with a
\* response.create (audio and text): the message is appended to what that
\* channel has sent when the call goes through, and nothing is sent, then or
\* later in that run, when the call throws; when dc is not open send() is not
\* called and nothing is sent on any channel.
C18_CommittedSendsOnce ==
    [][last' = "msg:committed" =>
          IF dc # NULL /\ chan[dc] = "open"
          THEN \/ /\ sendErrors' = 0
                  /\ sent' = [sent EXCEPT ![dc] = Append(@, ResponseCreateOnCommitted)]
               \/ /\ sendErrors' = 1
                  /\ sent' = sent
          ELSE sendErrors' = 0 /\ sent' = sent]_vars

\* two user turns were committed on the open channel: the response.create of
\* the first was sent, the send() of the second threw
C18_SecondSendThrew ==
    /\ variant = "B" /\ last = "msg:committed"
    /\ dc = 1 /\ chan[1] = "open"
    /\ sendErrors = 1
    /\ sent[1] = OpenSends("B", instructions, voice) \o <<ResponseCreateOnCommitted>>


\* C19: once an invocation of connect() has settled, or the teardown has run
\* while it was suspended, no handler other than a tap on the mic button
\* captures a microphone stream for it or issues its /session or SDP request.
C19_NoAutomaticRetry ==
    [][last' # "click:mic" =>
          \A k \in Slots :
              (seq[k].torn \/ seq[k].at \in Settled) =>
                  /\ seq'[k].reqs = seq[k].reqs
                  /\ stream[k].state = "none" => stream'[k].state = "none"]_vars


\* the conversation state Recording: connected, recording, and the track of the
\* current microphone stream enabled
Recording ==
    /\ isConnected /\ isRecording
    /\ micStream # NULL /\ stream[micStream].enabled

\* C20: the conversation state becomes Recording only in the open callback of
\* the event channel (or, once connected, by the user's tap that resumes
\* listening), and the step in which the remote answer is applied changes none
\* of isConnected, isRecording, the status and the enabling of the tracks.
C20_RecordingOnlyOnOpen ==
    [][/\ (~Recording /\ Recording') =>
             \/ last' = "dc:open"
             \/ last' = "click:mic" /\ isConnected
       /\ last' = "setRemote:resolved" =>
             /\ UNCHANGED <<isConnected, isRecording, micStream, status>>
             /\ \A k \in Slots : stream'[k].enabled = stream[k].enabled]_vars

\* the answer was applied and the attempt returned; the channel then opened and
\* the conversation is Recording
C20_RecordingAfterOpen ==
    /\ last = "dc:open"
    /\ seq[1].at = "returned" /\ conn[1].remoteDescription
    /\ Recording /\ status = "Listening..."


\* the transport: the references, the connections, the channels, what was sent
\* on them, and the invocations of connect()
transport == <<pc, dc, micStream, conn, chan, sent, seq>>

\* C21: while connected, a tap on the hold button, or on the mic button in
\* Recording, disables the track of the microphone stream and leaves the
\* transport unchanged, in state Connected; a tap on the mic button in
\* Connected enables the track again, in state Recording, and starts no
\* connect sequence.
C21_PauseAndResume ==
    [][/\ (last' = "click:hold" \/ (last' = "click:mic" /\ isConnected /\ isRecording)) =>
             /\ isConnected' /\ ~isRecording'
             /\ micStream # NULL
             /\ stream' = [stream EXCEPT ![micStream].enabled = FALSE]
             /\ UNCHANGED transport
       /\ (last' = "click:mic" /\ isConnected /\ ~isRecording) =>
             /\ isConnected' /\ isRecording'
             /\ micStream # NULL
             /\ stream' = [stream EXCEPT ![micStream].enabled = TRUE]
             /\ UNCHANGED transport]_vars

\* the conversation was paused and the mic button resumed it
C21_Resumed ==
    /\ last = "click:mic"
    /\ Recording
    /\ pc = 1 /\ chan[1] = "open" /\ seq[1].at = "returned"


\* C22: in the step in which a channel opens, what has been sent on it is a
\* session.update (with the voice in Variant B) first, followed in Variant A
\* by exactly one response.create and in Variant B by nothing.
C22_OpenSendsUpdateFirst ==
    [][\A c \in Slots :
          (last' = "dc:open" /\ chan[c] = "connecting" /\ chan'[c] = "open") =>
              IF variant = "A"
              THEN sent'[c] = <<Msg("session.update", "instructions"),
                                Msg("response.create", "default: text")>>
              ELSE sent'[c] \in {<<Msg("session.update", "instructions, voice")>>,
                                 <<Msg("session.update", "voice")>>}]_vars

\* a channel opened with instructions to send
C22_OpenedWithInstructions ==
    /\ last = "dc:open" /\ instructions # ""
    /\ chan[1] = "open"
    /\ sent[1] = OpenSends(variant, instructions, voice)


\* the channels attached for connection p: those with the handlers of
\* attachChannel installed
Attached(p) == {c \in {p, Remote(p)} : chan[c] # "none"}

\* C23: at most one channel is attached for each peer connection, so the
\* open-time messages are sent on at most one channel of a connection.
C23_OneChannelPerConnection ==
    \A p \in Slots :
        /\ Cardinality(Attached(p)) <= 1
        /\ sent[p] = <<>> \/ sent[Remote(p)] = <<>>

\* the channel the connection created has opened
C23_LocalChannelOpened ==
    /\ last = "dc:open"
    /\ Attached(1) = {1} /\ chan[1] = "open"
    /\ sent[1] = OpenSends(variant, instructions, voice)


\* the texts waiting in the TTS queue
QueuedTexts(q) == {q[i].text : i \in 1..Len(q)}

\* C24: a flush event adds to the transcript, and hands to the TTS queue, the
\* trimmed text received since the last response.created (or flush) and
\* nothing else: text of a turn abandoned by a response.created is in neither.
\* The line 'AI: <text>' either extends the text shown or, when that text
\* held a placeholder sentence, replaces it.
C24_FlushShowsCurrentTurnOnly ==
    [][last' \in FlushLabels =>
          LET text == trim(turn) IN
          /\ IF text = <<>>
             THEN transcript' = transcript
             ELSE textContent(transcript') \in
                     {textContent(transcript) \o Line(text), Line(text)}
          /\ QueuedTexts(ttsQueue') \subseteq QueuedTexts(ttsQueue) \cup {text}
          /\ Len(reqLog') + Len(ttsQueue') =
                Len(reqLog) + Len(ttsQueue) + (IF text # <<>> /\ variant = "A" THEN 1 ELSE 0)]_vars

\* a turn was abandoned with text received, and a later flush found nothing
\* to show
C24_AbandonedTurnNotShown ==
    /\ last = "msg:flush" /\ aborted
    /\ transcript.lines = <<>>
    /\ aiBuffer = <<>>


\* C25: a message that is not JSON, of an unknown type, or an error event
\* changes nothing of the transport, the media stream, the conversation
\* state, the AI Reply Buffer, the TTS queue and its worker, the status and
\* the transcript, and runs no teardown.
C25_NoiseChangesNothing ==
    [][last' = "msg:noise" =>
          /\ UNCHANGED transport
          /\ UNCHANGED <<stream, isConnected, isRecording, aiBuffer, promptApplied,
                         ttsQueue, ttsPlaying, jobs, audio, status, transcript>>
          /\ cleanups' = 0]_vars

\* noise arrived in the middle of a turn of a recording session
C25_NoiseMidTurn ==
    /\ last = "msg:noise"
    /\ Recording /\ dc = 1 /\ chan[1] = "open"
    /\ aiBuffer # <<>>


\* C26: when the /tts request of item i fails (a network error, a response
\* that is not ok, or a body that cannot be read), the job of i is over with
\* nothing handed to the audio element and nothing played, and in the same
\* step the worker requests the item at the head of the queue, if there is
\* one; otherwise the worker stops.
C26_FailedItemSkipped ==
    [][\A i \in Items :
          ((last' = "tts:failed" /\ jobs[i] = "fetch")
              \/ (last' = "tts:bodyerr" /\ jobs[i] = "body")) =>
              /\ jobs'[i] = "failed"
              /\ audio' = audio /\ audio.src # i
              /\ doneLog' = doneLog
              /\ IF ttsQueue # <<>>
                 THEN /\ reqLog' = Append(reqLog, Head(ttsQueue).id)
                      /\ ttsQueue' = Tail(ttsQueue)
                      /\ jobs'[Head(ttsQueue).id] = "fetch"
                      /\ ttsPlaying'
                 ELSE /\ reqLog' = reqLog
                      /\ ~ttsPlaying']_vars

\* the request of the first item failed, the second was requested and failed,
\* the third is requested: each in its turn
C26_RequestedBehindFailures ==
    /\ last = "tts:failed"
    /\ jobs[1] = "failed" /\ jobs[2] = "failed" /\ jobs[3] = "fetch"
    /\ reqLog = <<1, 2, 3>>
    /\ doneLog = <<>>


\* C27 (termination): an invocation of connect() that waits for ICE gathering
\* leaves the wait.
C27_IceWaitTerminates ==
    \A k \in Slots : (seq[k].at = "ice") ~> (seq[k].at # "ice")

\* the step is the fallback timer's, or a gathering-change handler's that finds
\* gathering complete on the connection the global pc names
C27_TimerOrComplete ==
    \/ last' = "ice:timer"
    \/ /\ last' \in {"ice:" \o v : v \in GatheringStates}
       /\ pc # NULL /\ conn'[pc].iceGatheringState = "complete"

\* C27 (order): an invocation leaves the ICE wait only in the handler of the
\* fallback timer or of a gathering change that finds gathering complete, and
\* the SDP offer is POSTed only there or with gathering already complete when
\* the wait starts.
C27_NoPostBeforeIce ==
    [][\A k \in Slots :
          /\ (seq[k].at = "ice" /\ seq'[k].at # "ice") => C27_TimerOrComplete
          /\ ("sdp" \in seq'[k].reqs /\ "sdp" \notin seq[k].reqs) =>
                \/ C27_TimerOrComplete
                \/ /\ last' = "setLocal:resolved"
                   /\ \E p \in Slots : conn'[p].iceGatheringState = "complete"]_vars

\* the wait was cut short by the fallback timer and the offer was POSTed
C27_PostedAfterTimer ==
    /\ last = "ice:timer"
    /\ seq[1].at = "sdp" /\ "sdp" \in seq[1].reqs
    /\ conn[1].iceGatheringState # "complete"


\* C28: once a fetch has succeeded, a call of getElevenVoices() started less
\* than the TTL after it (after the start of the latest successful call)
\* returns the cached list without an upstream request and a later call
\* fetches again; a failed fetch leaves the cache as it was.
C28_VoicesCachedForTtl ==
    [][/\ (last' \in {"voices:cached", "voices:fetch"} /\ server.fetched.ever) =>
             (last' = "voices:cached" <=> server.clock < server.fetched.at + Ttl)
       /\ last' = "voices:failed" => server'.cache = server.cache]_vars

\* a call was answered from the cache while it was fresh
C28_AnsweredFromCache ==
    /\ last = "voices:cached"
    /\ server.fetched.ever /\ server.clock = server.cache.at + 1


\* C29: isRecording implies isConnected, and isConnected implies that pc and
\* micStream are not null.
C29_RecordingImpliesTransport ==
    /\ isRecording => isConnected
    /\ isConnected => (pc # NULL /\ micStream # NULL)


\* after a pause the session is Connected, with its transport referenced
C29_PausedWithTransport ==
    /\ last = "click:hold"
    /\ isConnected /\ ~isRecording
    /\ pc # NULL /\ micStream # NULL


\* C30: in Variant A, between handlers, a TTS queue that is not empty has a
\* worker: ttsPlaying is true.
C30_QueuedImpliesWorker ==
    ttsQueue # <<>> => ttsPlaying

\* two replies wait in the queue behind the one the worker is busy with
C30_TwoQueuedBehindWorker ==
    /\ Len(ttsQueue) = 2 /\ ttsPlaying
    /\ \E i \in Items : jobs[i] \in {"fetch", "body", "play", "ended"}


\* C31: a completion event that finds the AI Reply Buffer empty or holding
\* only whitespace, as every completion event directly after another one does,
\* appends no line to the transcript and enqueues and requests no playback
\* item; a completion event that finds text adds exactly one line 'AI: <text>'
\* to the text shown (or shows that line alone, when the text shown held a
\* placeholder sentence) and, in Variant A, adds exactly one playback item
\* (none in Variant B).
C31_FlushedExactlyOnce ==
    [][last' \in FlushLabels =>
          LET text == trim(aiBuffer)
              items == Len(reqLog) + Len(ttsQueue)
              items2 == Len(reqLog') + Len(ttsQueue')
          IN  /\ (text = <<>> \/ last \in FlushLabels) =>
                    /\ transcript' = transcript
                    /\ ttsQueue' = ttsQueue /\ reqLog' = reqLog /\ jobs' = jobs
              /\ text # <<>> =>
                    /\ textContent(transcript') \in
                          {textContent(transcript) \o Line(text), Line(text)}
                    /\ items2 = items + (IF variant = "A" THEN 1 ELSE 0)]_vars

\* two completion events of one turn have been processed in a row, and
\* Variant A has shown and requested the reply of the turn once
C31_ShownOnceAfterTwoDone ==
    /\ variant = "A" /\ last = "msg:reflush"
    /\ transcript.lines = << <<"a">> >>
    /\ Len(reqLog) = 1 /\ ttsQueue = <<>>
    /\ aiBuffer = <<>>
    /\ chan[1] = "open"

=============================================================================
